---- MODULE Spec2Model ----
(***************************************************************************)
(* A model of the HyperLiquidWalletTracker event pipeline:                 *)
(*   - utils/rate_limiter.py       RateLimiter (per-channel limiters)      *)
(*   - notifications/dispatcher.py NotificationDispatcher                   *)
(*   - alerts/engine.py            AlertEngine (deduplication, alerts)      *)
(*   - core/monitor.py             HyperLiquidWalletTracker._handle_event   *)
(*   - core/websocket_client.py    WebSocketClient (run / shutdown)         *)
(* Time is a clock `now` in whole seconds.  Token counts are kept in       *)
(* tenths of a token so that the refill rate 0.1 token/s stays integral.   *)
(***************************************************************************)
EXTENDS Integers, Sequences, FiniteSets, TLC

(***************************************************************************)
(* Bounds of the model.                                                    *)
(***************************************************************************)
MaxNotifs == 1
MaxTime == 35
TickStep == 5
MaxRequests == 11
MaxEvents == 4
MaxEngineTime == 70
EngineTickStep == 10
MaxConnects == 3
MaxFailures == 32
MaxFrames == 2
RingExtra == 2

\* The alerts that wait on the pending list of one key.
MaxPending == 2

\* The mutations of the rule set and the events evaluated between them.
MaxMutations == 3

MaxRuleEvents == 2

\* The failed connection attempts and the backoff delays recorded after a connection
\* was closed.
MaxLogged == 5

\* The time up to which the retry worker is followed.
MaxRetryTime == 60

(***************************************************************************)
(* Program constants.                                                      *)
(***************************************************************************)
max_retries == 3
retry_delay_base == 5
RetrySleep == 5
TokenScale == 10
dedup_window_seconds == 30
max_history_size == 1000

\* PositionThresholds, the defaults.
notable_threshold == 1000

medium_threshold == 10000

large_threshold == 100000

whale_threshold == 1000000

NoStats == [absent |-> TRUE]

ChannelOrder == <<"discord", "telegram", "email", "webhook">>

Channels == {ChannelOrder[i] : i \in 1..Len(ChannelOrder)}

\* A wallet address is kept as its first eight characters and the rest.
Wallets == {[prefix |-> "0xaaaaaa", tail |-> "01"]}

\* DEFAULT_RATE_LIMITS; refill_rate is in tenths of a token per second.
DEFAULT_RATE_LIMITS == [c \in Channels |->
    CASE c = "discord"  -> [strategy |-> "sliding_window", max_requests |-> 10,
                            window_seconds |-> 60, burst_capacity |-> 5, refill_rate |-> 10]
      [] c = "telegram" -> [strategy |-> "sliding_window", max_requests |-> 20,
                            window_seconds |-> 60, burst_capacity |-> 5, refill_rate |-> 10]
      [] c = "email"    -> [strategy |-> "token_bucket", max_requests |-> 10,
                            window_seconds |-> 60, burst_capacity |-> 5, refill_rate |-> 1]
      [] c = "webhook"  -> [strategy |-> "sliding_window", max_requests |-> 30,
                            window_seconds |-> 60, burst_capacity |-> 5, refill_rate |-> 10]]

\* The channel configurations the dispatcher is constructed with.
ChannelConfigs == {{"discord", "email"}, {"telegram", "webhook"}}

Min(a, b) == IF a < b THEN a ELSE b

Max(a, b) == IF a > b THEN a ELSE b

RECURSIVE Pow2(_)
Pow2(n) == IF n <= 0 THEN 1 ELSE 2 * Pow2(n - 1)

VARIABLES
    now,                 \* the clock, in seconds
    channel_stats,       \* RateLimiter.channel_stats, of every channel's limiter, by key
    pending_events,      \* RateLimiter.pending_events, by key
    limiter_running,     \* RateLimiter._running, by channel
    window_sends,        \* history: per key, the times of the admitted sends inside the window
    channel_availability,\* NotificationDispatcher.channel_availability (the enabled channels)
    running,             \* NotificationDispatcher._running
    retry_queue,         \* NotificationDispatcher.retry_queue
    stats,               \* NotificationDispatcher.stats
    dispatching,         \* the dispatch_notification coroutines in progress
    rw,                  \* the _process_retries task: its position and locals
    notif_created,       \* notifications handed to dispatch_notification (ids 1..notif_created)
    sendlog,             \* history: per dispatch task, the calls of the channel send primitive
    recent_events,       \* AlertEngine.recent_events: fingerprint -> last seen
    engine_stats,        \* AlertEngine.stats
    rules,               \* RulesEngine.rules
    rule_stats,          \* RulesEngine.rule_stats
    event_history,       \* RulesEngine.event_history
    evaluated,           \* history: fingerprint and time of every event given to evaluate_event
    expected,            \* history: the rule names the mutations made so far switched on and off
    fingerprints,        \* two events and the fingerprints computed for them
    classified,          \* an event and a threshold configuration, with the USD values
                         \* and the size class derived for them
    tracker,             \* HyperLiquidWalletTracker: the position of start() and is_running
    instances,           \* two RulesEngine instances: the rule objects, the rule lists and
                         \* each instance's rules and rule_stats attributes
    ws_pc,               \* WebSocketClient.run: its position
    is_shutting_down,    \* WebSocketClient.is_shutting_down
    websocket,           \* WebSocketClient.websocket: "none", "open", "closed_ok", "closed_err"
    cstats,              \* WebSocketClient.stats (ConnectionStats)
    subscribed_wallets,  \* WebSocketClient.subscribed_wallets
    sub_loop,            \* subscribe_to_all_wallets: loop position and success_count
    health_check_task,   \* the connection_monitor task: "none", "start", "sleep", "done"
    shutdown_pc,         \* WebSocketClient.shutdown: its position
    after_finally,       \* run: what follows the finally block ("continue" or "backoff")
    reconnect_delay,     \* run: the delay of the backoff sleep in progress
    conn,                \* history: the subscribe requests sent and the frames forwarded
                         \* on the current connection
    session,             \* history: the connection made by the last successful connect()
    framelog             \* history: every frame the read loop took, with the events
                         \* given to the event handler for it

limiterVars == <<channel_stats, pending_events, limiter_running>>

dispatcherVars == <<channel_availability, running, retry_queue, stats, dispatching, rw,
                    notif_created, sendlog>>

engineVars == <<recent_events, engine_stats, rules, rule_stats, event_history, evaluated,
                expected, fingerprints, classified, tracker, instances>>

clientVars == <<ws_pc, is_shutting_down, websocket, cstats, subscribed_wallets, sub_loop,
                health_check_task, shutdown_pc, after_finally, reconnect_delay, conn,
                session, framelog>>

vars == <<now, window_sends, limiterVars, dispatcherVars, engineVars, clientVars>>

Keys == {<<c, w.prefix>> : c \in Channels, w \in Wallets}

\* RateLimiter._get_key: f"{channel}:{wallet[:8]}"
GetKey(channel, wallet) == <<channel, wallet.prefix>>

(***************************************************************************)
(* RateLimiter.can_send_request on the statistics st of one key, under     *)
(* configuration cfg at time t: the answer, the wait time and the new      *)
(* statistics.  No branch ever appends to "requests".                      *)
(***************************************************************************)
InitStats(cfg, t) ==
    [requests |-> <<>>, tokens |-> cfg.burst_capacity * TokenScale, last_refill |-> t]

CleanRequests(reqs, cutoff) == SelectSeq(reqs, LAMBDA r : r > cutoff)

SeqMin(s) == CHOOSE m \in {s[i] : i \in 1..Len(s)} : \A i \in 1..Len(s) : m <= s[i]

RefillTokensUncapped(s0, cfg, t) == s0.tokens + (t - s0.last_refill) * cfg.refill_rate

\* The tokens of a key after the refill for the time since last_refill.
RefillTokens(s0, cfg, t) ==
    Min(cfg.burst_capacity * TokenScale, s0.tokens + (t - s0.last_refill) * cfg.refill_rate)

CanSendRequest(st, cfg, t) ==
    LET s0 == IF st = NoStats THEN InitStats(cfg, t) ELSE st IN
    CASE cfg.strategy = "fixed_window" ->
           LET reqs == CleanRequests(s0.requests, t - cfg.window_seconds)
               s1 == [s0 EXCEPT !.requests = reqs]
           IN  IF Len(reqs) >= cfg.max_requests
               THEN [ok |-> FALSE, wait |-> Max(0, cfg.window_seconds - (t - reqs[1])), stats |-> s1]
               ELSE [ok |-> TRUE, wait |-> 0, stats |-> s1]
      [] cfg.strategy = "sliding_window" ->
           LET reqs == CleanRequests(s0.requests, t - cfg.window_seconds)
               s1 == [s0 EXCEPT !.requests = reqs]
           IN  IF Len(reqs) >= cfg.max_requests
               THEN [ok |-> FALSE, wait |-> Max(0, (SeqMin(reqs) + cfg.window_seconds) - t), stats |-> s1]
               ELSE [ok |-> TRUE, wait |-> 0, stats |-> s1]
      [] cfg.strategy = "token_bucket" ->
           LET tk == RefillTokens(s0, cfg, t) IN
           IF tk >= TokenScale
           THEN [ok |-> TRUE, wait |-> 0,
                 stats |-> [s0 EXCEPT !.tokens = tk - TokenScale, !.last_refill = t]]
           ELSE [ok |-> FALSE, wait |-> TokenScale \div cfg.refill_rate,
                 stats |-> [s0 EXCEPT !.tokens = tk, !.last_refill = t]]
      [] OTHER -> [ok |-> TRUE, wait |-> 0, stats |-> s0]

\* The position at which a stable sort by descending priority leaves a new last element.
RECURSIVE InsertByPriority(_, _)
InsertByPriority(q, pe) ==
    IF q = <<>> THEN <<pe>>
    ELSE IF Head(q).priority >= pe.priority
         THEN <<Head(q)>> \o InsertByPriority(Tail(q), pe)
         ELSE <<pe>> \o q

\* RateLimiter.add_pending_event: append, then sort by priority, highest first.
AddPendingEvent(q, event, priority) ==
    InsertByPriority(q, [event |-> event, priority |-> priority])

(***************************************************************************)
(* NotificationDispatcher.  A dispatch task is a pair <<notification id,   *)
(* channel>>.  A retry item is a record of the retry queue.                *)
(***************************************************************************)
Tasks == (1..MaxNotifs) \X Channels

NoItem == [none |-> TRUE]

TaskOf(item) == <<item.notification, item.channel>>

\* list.remove(item): the list without its first element equal to item.
RECURSIVE RemoveFirst(_, _)
RemoveFirst(q, item) ==
    IF q = <<>> THEN <<>>
    ELSE IF Head(q) = item THEN Tail(q)
    ELSE <<Head(q)>> \o RemoveFirst(Tail(q), item)

InSeq(q, x) == \E i \in 1..Len(q) : q[i] = x

\* _add_to_retry_queue: a fresh retry item, first retry retry_delay_base seconds from now.
NewRetryItem(channel, wallet, notification, t) ==
    [channel |-> channel, wallet |-> wallet, notification |-> notification,
     retry_count |-> 0, next_retry |-> t + retry_delay_base]

\* _process_retries, the scan: the items that are ready for a retry.
ReadyForRetry(item, t) == item.retry_count < max_retries /\ t >= item.next_retry

BumpRetryUncounted(item, scan_now) ==
    [item EXCEPT !.next_retry = scan_now + retry_delay_base * Pow2(item.retry_count + 1)]

\* _process_retries, before the send: count the retry and set the next retry time.
BumpRetry(item, scan_now) ==
    [item EXCEPT !.retry_count = item.retry_count + 1,
                 !.next_retry = scan_now + retry_delay_base * Pow2(item.retry_count + 1)]

RequeueLax(item) == item.retry_count <= max_retries

\* _process_retries, after a failed send: whether the item goes back on the queue.
Requeue(item) == item.retry_count < max_retries

\* The delay that must separate retry number k of a task from its preceding attempt.
RequiredDelay(k) == retry_delay_base * Pow2(k - 1)

LogStart(log, task, t, isRetry, k) ==
    [log EXCEPT ![task] =
        [@ EXCEPT !.starts = @ + 1,
                  !.retries = IF isRetry THEN @ + 1 ELSE @,
                  !.gaps_ok = @ /\ (isRetry => t - log[task].last_start >= RequiredDelay(k)),
                  !.after_ok = @ \/ log[task].oks > 0,
                  !.last_start = t]]

\* The task's send returned; final says that no further send of the task will follow.
LogDone(log, task, ok, final) ==
    [log EXCEPT ![task] = [@ EXCEPT !.oks = IF ok THEN @ + 1 ELSE @,
                                    !.terminal = @ \/ (~ok /\ final),
                                    !.last_start = IF final THEN 0 ELSE @]]

RwSleep(t) == [pc |-> "sleep", wake |-> t + RetrySleep, scan_now |-> 0, items |-> <<>>,
               cur |-> NoItem]

(***************************************************************************)
(* AlertEngine and RulesEngine.  An event is a record of the dictionary    *)
(* keys the engine reads; None stands for a string key that is missing,    *)
(* Absent for a numeric key that is missing and IsoString for a timestamp  *)
(* that is an ISO-8601 string, as the WebSocket client writes it.          *)
(***************************************************************************)
None == "None"

Absent == -1

IsoString == -2

\* The payload of a frame element: the fields of a fill, or none of them.
Fill(coin, side, price, size) == [coin |-> coin, side |-> side, price |-> price, size |-> size]

NoFill == Fill(None, None, Absent, Absent)

\* The event _process_single_event builds from a frame element: the payload is nested
\* under "data", so none of the keys the engine reads is at the top level but type,
\* wallet and timestamp.
PipelineEvent(channel, wallet, data) ==
    [type |-> channel, wallet |-> wallet, coin |-> None, side |-> None,
     usd_value |-> Absent, size |-> Absent, price |-> Absent, timestamp |-> IsoString,
     data |-> data]

\* The events given to the monitor's handler: a pipeline event, and three flat events
\* that carry their own fields, two with a USD value and one with a price and a size.
EventInputs == {
    PipelineEvent("userFills", "0xaaaaaa01", Fill("BTC", "buy", 50000, 25)),
    [type |-> "test", wallet |-> "0xaaaaaa01", coin |-> "BTC", side |-> "BUY",
     usd_value |-> 50000, size |-> Absent, price |-> Absent, timestamp |-> Absent,
     data |-> NoFill],
    [type |-> "userFills", wallet |-> "0xaaaaaa01", coin |-> "ETH", side |-> "sell",
     usd_value |-> Absent, size |-> 25, price |-> 50000, timestamp |-> Absent,
     data |-> NoFill],
    [type |-> "userFills", wallet |-> "0xbbbbbb02", coin |-> "BTC", side |-> "BUY",
     usd_value |-> 10000, size |-> Absent, price |-> Absent, timestamp |-> Absent,
     data |-> NoFill]}

DEFAULT_RULES == <<
    [name |-> "whale_position", condition |-> "position_size", severity |-> "critical",
     enabled |-> TRUE, threshold |-> 1000000, time_window |-> Absent,
     custom_condition |-> None],
    [name |-> "large_position", condition |-> "position_size", severity |-> "high",
     enabled |-> TRUE, threshold |-> 100000, time_window |-> Absent,
     custom_condition |-> None],
    [name |-> "medium_position", condition |-> "position_size", severity |-> "medium",
     enabled |-> TRUE, threshold |-> 10000, time_window |-> Absent,
     custom_condition |-> None],
    [name |-> "notable_position", condition |-> "position_size", severity |-> "low",
     enabled |-> TRUE, threshold |-> 1000, time_window |-> Absent,
     custom_condition |-> None],
    [name |-> "high_frequency_trading", condition |-> "frequency", severity |-> "medium",
     enabled |-> TRUE, threshold |-> 10, time_window |-> 60,
     custom_condition |-> None],
    [name |-> "unusual_volume", condition |-> "volume_threshold", severity |-> "high",
     enabled |-> TRUE, threshold |-> 50000, time_window |-> 300,
     custom_condition |-> None]>>

\* A rule set a RulesEngine can be constructed with: two custom rules, one whose
\* predicate raises and one whose predicate returns true, a position rule that is
\* disabled, and a frequency and a volume rule with small thresholds and a window of one
\* minute.  A predicate is kept as what it does on an event.
CUSTOM_RULES == <<
    [name |-> "broken_custom", condition |-> "custom", severity |-> "info",
     enabled |-> TRUE, threshold |-> Absent, time_window |-> Absent,
     custom_condition |-> "raises"],
    [name |-> "medium_position", condition |-> "position_size", severity |-> "medium",
     enabled |-> TRUE, threshold |-> 10000, time_window |-> Absent,
     custom_condition |-> None],
    [name |-> "notable_position", condition |-> "position_size", severity |-> "low",
     enabled |-> FALSE, threshold |-> 1000, time_window |-> Absent,
     custom_condition |-> None],
    [name |-> "burst", condition |-> "frequency", severity |-> "medium",
     enabled |-> TRUE, threshold |-> 2, time_window |-> 60,
     custom_condition |-> None],
    [name |-> "minute_volume", condition |-> "volume_threshold", severity |-> "high",
     enabled |-> TRUE, threshold |-> 60000, time_window |-> 60,
     custom_condition |-> None],
    [name |-> "every_event", condition |-> "custom", severity |-> "low",
     enabled |-> TRUE, threshold |-> Absent, time_window |-> Absent,
     custom_condition |-> "true"]>>

RuleSets == {DEFAULT_RULES, CUSTOM_RULES}

\* AlertEngine._create_event_fingerprint: the fields joined by "|", kept as the sequence
\* of the joined parts.  A missing type, wallet, coin or side is left out of the join; a
\* missing usd_value, size or price is the empty string.
Str(v) == IF v = Absent THEN "" ELSE ToString(v)

CreateEventFingerprintNoPrice(e) ==
    SelectSeq(<<e.type, e.wallet, e.coin, e.side>>, LAMBDA f : f # None)
        \o <<Str(e.usd_value), Str(e.size)>>

CreateEventFingerprint(e) ==
    SelectSeq(<<e.type, e.wallet, e.coin, e.side>>, LAMBDA f : f # None)
        \o <<Str(e.usd_value), Str(e.size), Str(e.price)>>

\* AlertEngine._is_duplicate_event, the test: the fingerprint was seen less than
\* dedup_window_seconds ago.  recent_events is a set of [fp, seen] records, one per fp.
IsDuplicateEvent(recent, fp, t) ==
    \E r \in recent : r.fp = fp /\ t - r.seen < dedup_window_seconds

CleanupCutoffShort(t) == t - dedup_window_seconds \div 3

CleanupCutoff(t) == t - dedup_window_seconds * 2

\* AlertEngine._is_duplicate_event, the update made for an event that is no duplicate.
TrackEvent(recent, fp, t) ==
    LET upd == {r \in recent : r.fp # fp} \cup {[fp |-> fp, seen |-> t]}
    IN  {r \in upd : r.seen > CleanupCutoff(t)}

\* dict.get(key): the value of a key of the event, Absent when the key is missing or
\* its value is None.
Get(e, key) == IF key \in DOMAIN e THEN e[key] ELSE Absent

\* The keys both _extract_usd_value functions try for an explicit USD value, in order.
usd_fields == <<"usd_value", "usdValue", "value_usd", "valueUSD",
                "total_value", "totalValue", "amount_usd", "amountUSD">>

\* The value of the first of the keys that is present, Absent if none is.
RECURSIVE FirstPresent(_, _)
FirstPresent(e, keys) ==
    IF keys = <<>> THEN Absent
    ELSE IF Get(e, Head(keys)) # Absent THEN Get(e, Head(keys))
    ELSE FirstPresent(e, Tail(keys))

\* `event.get(k1) or event.get(k2) or ...`: the first value that is neither None nor
\* zero, else the value of the last key.
RECURSIVE FirstTruthy(_, _)
FirstTruthy(e, keys) ==
    IF Len(keys) = 1 THEN Get(e, Head(keys))
    ELSE IF Get(e, Head(keys)) \notin {Absent, 0} THEN Get(e, Head(keys))
    ELSE FirstTruthy(e, Tail(keys))

\* RulesEngine._extract_usd_value: the first explicit USD value, else price * size.
ExtractUsdValue(e) ==
    LET price == FirstTruthy(e, <<"price", "limitPx", "limit_px">>)
        size == FirstTruthy(e, <<"size", "sz", "quantity">>)
    IN  IF FirstPresent(e, usd_fields) # Absent THEN FirstPresent(e, usd_fields)
        ELSE IF price = Absent \/ size = Absent THEN Absent
        ELSE price * size

\* PositionClassifier._extract_price and _extract_size.
ExtractPrice(e) == FirstPresent(e, <<"price", "limitPx", "limit_px", "execution_price">>)

ExtractSize(e) == FirstPresent(e, <<"size", "sz", "quantity", "amount", "volume">>)

\* PositionClassifier._extract_usd_value: the first explicit USD value, else the product
\* of the extracted price and size.
ClassifierUsdValue(e) ==
    IF FirstPresent(e, usd_fields) # Absent THEN FirstPresent(e, usd_fields)
    ELSE IF ExtractPrice(e) = Absent \/ ExtractSize(e) = Absent THEN Absent
    ELSE ExtractPrice(e) * ExtractSize(e)

\* PositionThresholds with its defaults.
PositionThresholds ==
    [notable_threshold |-> notable_threshold, medium_threshold |-> medium_threshold,
     large_threshold |-> large_threshold, whale_threshold |-> whale_threshold]

\* PositionClassifier.classify_position of a classifier constructed with the thresholds.
ClassifyPositionWith(thresholds, e) ==
    LET usd_value == ClassifierUsdValue(e)
    IN  IF usd_value = Absent \/ usd_value <= 0 THEN None
        ELSE IF usd_value >= thresholds.whale_threshold THEN "WHALE"
        ELSE IF usd_value >= thresholds.large_threshold THEN "LARGE"
        ELSE IF usd_value >= thresholds.medium_threshold THEN "MEDIUM"
        ELSE IF usd_value >= thresholds.notable_threshold THEN "NOTABLE"
        ELSE "SMALL"

\* classify_position with the default thresholds.
ClassifyPosition(e) == ClassifyPositionWith(PositionThresholds, e)

\* PositionClassifier.analyze_position, the size class of the analysis.
AnalyzePosition(e) == ClassifyPosition(e)

\* The classifier of the AlertEngine the monitor constructs: none is given.
position_classifier == None

\* RulesEngine._add_to_history: the event gets a numeric timestamp if it has none, and
\* the history keeps its last max_history_size entries.
Stamp(e, t) == IF e.timestamp = Absent THEN [e EXCEPT !.timestamp = t] ELSE e

AddToHistoryKeepOldest(hist, e, t) ==
    LET h == Append(hist, Stamp(e, t))
    IN  IF Len(h) > max_history_size THEN SubSeq(h, 1, max_history_size) ELSE h

AddToHistory(hist, e, t) ==
    LET h == Append(hist, Stamp(e, t))
    IN  IF Len(h) > max_history_size
        THEN SubSeq(h, Len(h) - max_history_size + 1, Len(h))
        ELSE h

\* RulesEngine._evaluate_volume_threshold, the sum of the USD values of the events es,
\* an event without a value counting for 0; the sum is taken by halves.
RECURSIVE VolumeBetween(_, _, _)
VolumeBetween(es, lo, hi) ==
    IF lo > hi THEN 0
    ELSE IF lo = hi
    THEN (IF ExtractUsdValue(es[lo]) = Absent THEN 0 ELSE ExtractUsdValue(es[lo]))
    ELSE VolumeBetween(es, lo, (lo + hi) \div 2)
             + VolumeBetween(es, (lo + hi) \div 2 + 1, hi)

TotalVolume(es) == VolumeBetween(es, 1, Len(es))

\* RulesEngine._evaluate_custom, the call of the predicate: what it returns, and False
\* when it raises.
CustomResultLax(outcome) == IF outcome = "raises" THEN "true" ELSE outcome

CustomResult(outcome) == IF outcome = "raises" THEN "false" ELSE outcome

\* RulesEngine._evaluate_position_size, the comparison.
ReachesThresholdStrict(usd_value, threshold) == usd_value > threshold

ReachesThreshold(usd_value, threshold) == usd_value >= threshold

\* RulesEngine._evaluate_rule: "true", "false", or "error" when the evaluation raises
\* (the comparison of a string timestamp with the numeric cutoff is a TypeError).
EvaluateRule(rule, e, hist, t) ==
    CASE rule.condition = "position_size" ->
           IF rule.threshold = Absent \/ ExtractUsdValue(e) = Absent THEN "false"
           ELSE IF ReachesThreshold(ExtractUsdValue(e), rule.threshold) THEN "true"
           ELSE "false"
      [] rule.condition = "volume_threshold" ->
           IF rule.threshold = Absent \/ rule.time_window = Absent THEN "false"
           ELSE IF \E i \in 1..Len(hist) : hist[i].timestamp = IsoString THEN "error"
           ELSE LET recent == SelectSeq(hist, LAMBDA h : h.timestamp >= t - rule.time_window)
                IN  IF TotalVolume(recent) >= rule.threshold THEN "true" ELSE "false"
      [] rule.condition = "frequency" ->
           IF rule.threshold = Absent \/ rule.time_window = Absent THEN "false"
           ELSE IF e.wallet \in {None, ""} THEN "false"
           ELSE IF \E i \in 1..Len(hist) :
                      hist[i].wallet = e.wallet /\ hist[i].timestamp = IsoString THEN "error"
           ELSE LET recent == SelectSeq(hist, LAMBDA h :
                                  h.wallet = e.wallet /\ h.timestamp >= t - rule.time_window)
                IN  IF Len(recent) >= rule.threshold THEN "true" ELSE "false"
      [] rule.condition = "custom" ->
           IF rule.custom_condition = None THEN "false"
           ELSE CustomResult(rule.custom_condition)
      [] OTHER -> "false"

\* RulesEngine._update_rule_stats.
UpdateRuleStats(rs, rule, triggered, t) ==
    [rs EXCEPT ![rule.name] =
        [triggered_count |-> @.triggered_count + (IF triggered THEN 1 ELSE 0),
         last_triggered  |-> IF triggered THEN t ELSE @.last_triggered,
         total_events    |-> @.total_events + 1]]

\* RulesEngine.evaluate_event's loop over the rules from position i, on the history the
\* event has been added to: the names of the rules evaluated, in the order of their
\* evaluation, the names of the triggered rules and the new statistics.
RECURSIVE EvaluateFromShortcut(_, _, _, _, _, _)
EvaluateFromShortcut(rl, i, e, hist, rs, t) ==
    IF i > Len(rl) THEN [order |-> <<>>, triggered |-> <<>>, rule_stats |-> rs]
    ELSE IF ~rl[i].enabled THEN EvaluateFromShortcut(rl, i + 1, e, hist, rs, t)
    ELSE IF EvaluateRule(rl[i], e, hist, t) = "true"
    THEN [order |-> <<rl[i].name>>, triggered |-> <<rl[i].name>>,
          rule_stats |-> UpdateRuleStats(rs, rl[i], TRUE, t)]
    ELSE LET rest == EvaluateFromShortcut(rl, i + 1, e, hist,
                                          UpdateRuleStats(rs, rl[i], FALSE, t), t)
         IN  [rest EXCEPT !.order = <<rl[i].name>> \o @]

RECURSIVE EvaluateFrom(_, _, _, _, _, _)
EvaluateFrom(rl, i, e, hist, rs, t) ==
    IF i > Len(rl) THEN [order |-> <<>>, triggered |-> <<>>, rule_stats |-> rs]
    ELSE IF ~rl[i].enabled THEN EvaluateFrom(rl, i + 1, e, hist, rs, t)
    ELSE LET hit  == EvaluateRule(rl[i], e, hist, t) = "true"
             rest == EvaluateFrom(rl, i + 1, e, hist, UpdateRuleStats(rs, rl[i], hit, t), t)
         IN  [order |-> <<rl[i].name>> \o rest.order,
              triggered |-> (IF hit THEN <<rl[i].name>> ELSE <<>>) \o rest.triggered,
              rule_stats |-> rest.rule_stats]

\* RulesEngine.__init__(rules): the rules and a statistics entry for each of them.
InitRules(rl) ==
    /\ rules = rl
    /\ rule_stats = [n \in {rl[i].name : i \in 1..Len(rl)} |->
                        [triggered_count |-> 0, last_triggered |-> Absent, total_events |-> 0]]
    /\ event_history = <<>>

\* Two events whose fingerprints are not computed yet.
EventPair(a, b) == [a |-> a, b |-> b, computed |-> FALSE, fa |-> <<>>, fb |-> <<>>]

\* AlertEngine.__init__ on a rules engine with the rules rl.
InitAlertEngine(rl) ==
    /\ recent_events = {}
    /\ engine_stats = [events_processed |-> 0, alerts_triggered |-> 0,
                       notifications_sent |-> 0, errors |-> 0]
    /\ InitRules(rl)
    /\ evaluated = <<>>
    /\ expected = [on |-> {}, off |-> {}, mutations |-> 0]

\* No second RulesEngine is constructed.
NoInstances == [constructed |-> FALSE]

\* No event is given to a PositionClassifier.
NoClassification == [computed |-> FALSE]

\* HyperLiquidWalletTracker.__init__.
InitTracker == tracker = [pc |-> "init", is_running |-> FALSE]

InitEngineWith(rl) ==
    /\ InitAlertEngine(rl)
    /\ instances = NoInstances
    /\ classified = NoClassification
    /\ InitTracker
    /\ fingerprints = EventPair(PipelineEvent(None, None, NoFill),
                                PipelineEvent(None, None, NoFill))

InitEngine == InitEngineWith(DEFAULT_RULES)

(***************************************************************************)
(* WebSocketClient.                                                        *)
(***************************************************************************)
watched_wallets == <<"0xaaaaaa01">>

channel_types == <<"userFills", "userEvents", "orderUpdates">>

\* The subscription keys in the order subscribe_to_all_wallets goes through them.
SubKeys == [i \in 1..(Len(watched_wallets) * Len(channel_types)) |->
               <<channel_types[((i - 1) % Len(channel_types)) + 1],
                 watched_wallets[((i - 1) \div Len(channel_types)) + 1]>>]

(***************************************************************************)
(* Frames.  A frame is a message of the connection: `valid` tells whether  *)
(* it is JSON, `user` is the top-level account field (None when missing),  *)
(* `kind` the type of the "data" payload and `items` its elements (the one *)
(* record of a dictionary payload, the elements of a list payload).  An    *)
(* element is a dictionary or not, may name an account, may have the       *)
(* fields of a fill, and carries an id that tells the elements of the      *)
(* model apart.                                                            *)
(***************************************************************************)
Elem(isdict, user, id) == [isdict |-> isdict, user |-> user, id |-> id, fill |-> NoFill]

FillElem(id, fill) == [isdict |-> TRUE, user |-> None, id |-> id, fill |-> fill]

\* A userFills frame of the watched account whose payload is one fill: 25 BTC bought at
\* 50000.
FillFrame ==
    [valid |-> TRUE, channel |-> "userFills", user |-> "0xaaaaaa01", kind |-> "dict",
     items |-> <<FillElem(1, Fill("BTC", "buy", 50000, 25))>>]

Frame(valid, channel, user, kind, items) ==
    [valid |-> valid, channel |-> channel, user |-> user, kind |-> kind, items |-> items]

FrameInputs == {
    Frame(FALSE, None, None, "other", <<>>),
    Frame(TRUE, "subscriptionResponse", None, "dict", <<Elem(TRUE, None, 1)>>),
    Frame(TRUE, "userFills", "0xaaaaaa01", "list",
          <<Elem(TRUE, None, 1), Elem(FALSE, None, 2), Elem(TRUE, "0xbbbbbb02", 3)>>),
    Frame(TRUE, "userEvents", None, "dict", <<Elem(TRUE, "0xaaaaaa01", 1)>>),
    Frame(TRUE, "orderUpdates", None, "list",
          <<Elem(TRUE, "0xaaaaaa01", 1), Elem(TRUE, None, 2)>>),
    Frame(TRUE, "userFills", "0xbbbbbb02", "list", <<Elem(TRUE, "0xaaaaaa01", 1)>>),
    Frame(TRUE, "userEvents", "", "dict", <<Elem(TRUE, "unknown", 1)>>),
    Frame(TRUE, "orderUpdates", None, "other", <<>>),
    FillFrame}

IsWatchedLax(wallet) == wallet # "0x0"

IsWatched(wallet) == \E i \in 1..Len(watched_wallets) : watched_wallets[i] = wallet

\* WebSocketClient._extract_wallet_from_event, check_dict_for_wallet on one element.
CheckDictForWallet(el) ==
    IF el.isdict /\ el.user \notin {None, "", "unknown", "multiple_wallets", "0x0", "null"}
    THEN el.user ELSE None

\* WebSocketClient._handle_wallet_event, the account of the frame: the top-level field
\* if it is not empty, else what _extract_wallet_from_event finds in the first element
\* of a list payload or in a dictionary payload.
ResolveWallet(f) ==
    IF f.user \notin {None, ""} THEN f.user
    ELSE IF f.kind \in {"list", "dict"} /\ f.items # <<>> THEN CheckDictForWallet(f.items[1])
    ELSE None

\* WebSocketClient._handle_wallet_event, the elements given to _process_single_event in
\* the order of the calls: those of a list payload in list order, the one of a
\* dictionary payload.
PayloadElementsFirst(f) ==
    IF f.kind \in {"list", "dict"} /\ f.items # <<>>
    THEN <<f.items[Len(f.items)]>> \o SubSeq(f.items, 1, Len(f.items) - 1)
    ELSE <<>>

PayloadElements(f) == IF f.kind \in {"list", "dict"} THEN f.items ELSE <<>>

\* WebSocketClient.handle_message(f): the events _process_single_event gives to the
\* event handler, in the order of the calls.  Only a frame of one of the three wallet
\* channels whose account is watched gives events, one per element that is a dictionary.
FrameEvents(f) ==
    LET wallet == ResolveWallet(f)
    IN  IF ~f.valid \/ f.channel \notin {"userFills", "userEvents", "orderUpdates"}
        THEN <<>>
        ELSE IF wallet \in {None, ""} \/ ~IsWatched(wallet) THEN <<>>
        ELSE LET els == SelectSeq(PayloadElements(f), LAMBDA el : el.isdict)
             IN  [i \in 1..Len(els) |-> [type |-> f.channel, wallet |-> wallet,
                                          id |-> els[i].id, data |-> els[i].fill]]

\* A counter of the statistics, kept up to a bound.
Bump(n, max) == IF n < max THEN n + 1 ELSE max

\* What is remembered of the connection made by the last successful connect(), for the
\* properties: its frames, consecutive_failures before connect() and when the read loop
\* ended, how the connection was closed, the connection attempts that failed and the
\* backoff delays taken since, the liveness probes that failed in a row and whether
\* connection_monitor closed the socket.
NewSession(failures) ==
    [frames |-> 0, pre_failures |-> failures, closed |-> "no", close_failures |-> 0,
     fails |-> 0, delays |-> <<>>, failed_probes |-> 0, monitor_closed |-> FALSE]

InitClient ==
    /\ ws_pc = "init"
    /\ is_shutting_down = FALSE
    /\ websocket = "none"
    /\ cstats = [connected |-> FALSE, total_messages |-> 0, successful_parses |-> 0,
                 failed_parses |-> 0, reconnect_count |-> 0, subscription_count |-> 0,
                 consecutive_failures |-> 0]
    /\ subscribed_wallets = {}
    /\ sub_loop = [idx |-> 1, success_count |-> 0]
    /\ health_check_task = "none"
    /\ shutdown_pc = "idle"
    /\ after_finally = "none"
    /\ reconnect_delay = 0
    /\ conn = [requests |-> {}, forwarded |-> FALSE]
    /\ session = NewSession(0)
    /\ framelog = <<>>

InitLimiter ==
    /\ pending_events = [k \in Keys |-> <<>>]
    /\ limiter_running = [c \in Channels |-> FALSE]
    /\ window_sends = [k \in Keys |-> <<>>]

InitDispatcher ==
    /\ running = FALSE
    /\ retry_queue = <<>>
    /\ stats = [notifications_sent |-> 0, notifications_failed |-> 0,
                retries_attempted |-> 0, rate_limited |-> 0]
    /\ dispatching = {}
    /\ rw = [pc |-> "idle", wake |-> 0, scan_now |-> 0, items |-> <<>>, cur |-> NoItem]
    /\ notif_created = 0
    /\ sendlog = [t \in Tasks |-> [starts |-> 0, oks |-> 0, retries |-> 0,
                                   last_start |-> 0, gaps_ok |-> TRUE, after_ok |-> FALSE,
                                   terminal |-> FALSE]]

\* The limiters are module-level objects (rate_limiters) that outlive the notifications:
\* earlier e-mails, already delivered, may have drained the bucket of the wallet.
Init ==
    /\ now = 0
    /\ channel_availability \in ChannelConfigs
    /\ channel_stats \in {[k \in Keys |-> NoStats],
                          [k \in Keys |-> IF k[1] = "email" /\ "email" \in channel_availability
                                          THEN [requests |-> <<>>, tokens |-> 0, last_refill |-> 0]
                                          ELSE NoStats]}
    /\ InitLimiter
    /\ InitDispatcher
    /\ InitEngine
    /\ InitClient

\* The clock advances.
Tick ==
    /\ now + TickStep <= MaxTime
    /\ now' = now + TickStep
    /\ UNCHANGED <<window_sends, limiterVars, dispatcherVars, engineVars, clientVars>>

\* NotificationDispatcher.start: the retry worker starts with its first sleep.
Start ==
    /\ ~running
    /\ running' = TRUE
    /\ rw' = RwSleep(now)
    /\ UNCHANGED <<window_sends, engineVars, clientVars>>
    /\ UNCHANGED <<now, channel_stats, pending_events, limiter_running, channel_availability,
                   retry_queue, stats, dispatching, notif_created, sendlog>>

(***************************************************************************)
(* dispatch_notification's loop over channel_availability.items() from     *)
(* position i, for notification n of wallet w, run up to its next await:   *)
(* each enabled channel goes through _send_to_channel's rate-limit check;  *)
(* a refused notification is put on the limiter's pending list and the     *)
(* loop goes on; an admitted one begins the channel send (at = its            *)
(* position).  at > Len(ChannelOrder) says the loop has ended.             *)
(***************************************************************************)
RECURSIVE DispatchLoop(_, _, _, _)
DispatchLoop(st, n, w, i) ==
    IF i > Len(ChannelOrder) THEN [st EXCEPT !.at = i]
    ELSE LET c == ChannelOrder[i]
             key == GetKey(c, w)
             res == CanSendRequest(st.cs[key], DEFAULT_RATE_LIMITS[c], now)
         IN  IF c \notin channel_availability THEN DispatchLoop(st, n, w, i + 1)
             ELSE IF res.ok
             THEN [st EXCEPT !.cs[key] = res.stats,
                             !.log = LogStart(st.log, <<n, c>>, now, FALSE, 0),
                             !.at = i]
             ELSE DispatchLoop([st EXCEPT !.cs[key] = res.stats,
                                          !.pe[key] = AddPendingEvent(@, n, 0),
                                          !.stats.rate_limited = @ + 1],
                               n, w, i + 1)

DispatchFrom(st, n, w, i) ==
    LET r == DispatchLoop(st, n, w, i) IN
    /\ channel_stats' = r.cs
    /\ pending_events' = r.pe
    /\ stats' = r.stats
    /\ sendlog' = r.log
    /\ dispatching' = IF r.at > Len(ChannelOrder)
                      THEN {d \in dispatching : d.notification # n}
                      ELSE {d \in dispatching : d.notification # n}
                           \cup {[notification |-> n, wallet |-> w, idx |-> r.at]}

\* dispatch_notification is called with a new notification: up to its first await.
DispatchNotification(wallet, has_context) ==
    /\ notif_created < MaxNotifs
    /\ notif_created' = notif_created + 1
    /\ IF has_context
       THEN DispatchFrom([cs |-> channel_stats, pe |-> pending_events, stats |-> stats,
                          log |-> sendlog, at |-> 0], notif_created + 1, wallet, 1)
       ELSE UNCHANGED <<channel_stats, pending_events, stats, sendlog, dispatching>>
    /\ UNCHANGED <<window_sends, engineVars, clientVars>>
    /\ UNCHANGED <<now, limiter_running, channel_availability, running, retry_queue, rw>>

\* _send_to_channel after the await: the channel send of coroutine d returned success or
\* failure; a failed notification goes on the retry queue; the loop goes on to the next
\* channels.
SendDone(d, success) ==
    /\ d \in dispatching
    /\ LET c == ChannelOrder[d.idx]
           st == [cs |-> channel_stats, pe |-> pending_events,
                  stats |-> IF success
                            THEN [stats EXCEPT !.notifications_sent = @ + 1]
                            ELSE [stats EXCEPT !.notifications_failed = @ + 1],
                  log |-> LogDone(sendlog, <<d.notification, c>>, success, success),
                  at |-> 0]
       IN  /\ retry_queue' = IF success THEN retry_queue
                             ELSE Append(retry_queue,
                                         NewRetryItem(c, d.wallet, d.notification, now))
           /\ DispatchFrom(st, d.notification, d.wallet, d.idx + 1)
    /\ UNCHANGED <<window_sends, engineVars, clientVars>>
    /\ UNCHANGED <<now, limiter_running, channel_availability, running, rw, notif_created>>

TakeFromQueueKeep(q, item) == q

\* The retry queue once the retry worker has taken item off it.
TakeFromQueue(q, item) == RemoveFirst(q, item)

(***************************************************************************)
(* _process_retries, for the next ready item of the batch: the item is     *)
(* taken off the queue, its retry is counted, its next retry time is set   *)
(* from the scan's time, and the send begins.                              *)
(***************************************************************************)
RetryBegin(q, st, log, items, scan_now) ==
    LET item == Head(items)
        bumped == BumpRetry(item, scan_now)
    IN  IF InSeq(q, item)
        THEN [queue |-> TakeFromQueue(q, item),
              stats |-> [st EXCEPT !.retries_attempted = @ + 1],
              log |-> LogStart(log, TaskOf(item), now, TRUE, bumped.retry_count),
              rw |-> [pc |-> "send", wake |-> 0, scan_now |-> scan_now,
                      items |-> Tail(items), cur |-> bumped]]
        ELSE \* list.remove raises ValueError: the rest of the batch is abandoned
             [queue |-> q, stats |-> st, log |-> log, rw |-> RwSleep(now)]

\* _process_retries: the sleep is over; the items ready for a retry are collected and the
\* first of them is sent again.
RetryWake ==
    /\ running
    /\ rw.pc = "sleep"
    /\ now >= rw.wake
    /\ LET ready == SelectSeq(retry_queue, LAMBDA it : ReadyForRetry(it, now))
           r == RetryBegin(retry_queue, stats, sendlog, ready, now)
       IN  IF ready = <<>>
           THEN /\ rw' = RwSleep(now)
                /\ UNCHANGED <<retry_queue, stats, sendlog>>
           ELSE /\ rw' = r.rw
                /\ retry_queue' = r.queue
                /\ stats' = r.stats
                /\ sendlog' = r.log
    /\ UNCHANGED <<window_sends, engineVars, clientVars>>
    /\ UNCHANGED <<now, channel_stats, pending_events, limiter_running, channel_availability,
                   running, dispatching, notif_created>>

AfterRetryAlways(q, item, success) ==
    IF Requeue(item) THEN Append(q, item) ELSE q

\* The retry queue after a retry of item returned success or failure.
AfterRetry(q, item, success) ==
    IF ~success /\ Requeue(item) THEN Append(q, item) ELSE q

\* _process_retries: the retried send returned; the next item of the batch is sent, or
\* the worker sleeps again.
RetryDone(success) ==
    /\ rw.pc = "send"
    /\ LET item == rw.cur
           q1 == AfterRetry(retry_queue, item, success)
           st1 == IF success THEN [stats EXCEPT !.notifications_sent = @ + 1]
                  ELSE IF Requeue(item) THEN stats
                  ELSE [stats EXCEPT !.notifications_failed = @ + 1]
           log1 == LogDone(sendlog, TaskOf(item), success, success \/ ~Requeue(item))
           r == RetryBegin(q1, st1, log1, rw.items, rw.scan_now)
       IN  IF rw.items = <<>>
           THEN /\ rw' = RwSleep(now)
                /\ retry_queue' = q1
                /\ stats' = st1
                /\ sendlog' = log1
           ELSE /\ rw' = r.rw
                /\ retry_queue' = r.queue
                /\ stats' = r.stats
                /\ sendlog' = r.log
    /\ UNCHANGED <<window_sends, engineVars, clientVars>>
    /\ UNCHANGED <<now, channel_stats, pending_events, limiter_running, channel_availability,
                   running, dispatching, notif_created>>

\* RateLimiter.start_background_tasks of the limiter of an enabled channel c.
StartBackgroundTasks(c) ==
    /\ c \in channel_availability
    /\ ~limiter_running[c]
    /\ limiter_running' = [limiter_running EXCEPT ![c] = TRUE]
    /\ UNCHANGED <<window_sends, engineVars, clientVars>>
    /\ UNCHANGED <<now, channel_stats, pending_events, channel_availability, running,
                   retry_queue, stats, dispatching, rw, notif_created, sendlog>>

\* RateLimiter._flush_loop, one pass for key k: when the limiter admits a request for
\* the key, its pending events are cleared; none is sent.
FlushKey(k) ==
    /\ limiter_running[k[1]]
    /\ pending_events[k] # <<>>
    /\ LET res == CanSendRequest(channel_stats[k], DEFAULT_RATE_LIMITS[k[1]], now) IN
       /\ channel_stats' = [channel_stats EXCEPT ![k] = res.stats]
       /\ pending_events' = IF res.ok /\ res.wait <= 0
                            THEN [pending_events EXCEPT ![k] = <<>>]
                            ELSE pending_events
    /\ UNCHANGED <<window_sends, engineVars, clientVars>>
    /\ UNCHANGED <<now, limiter_running, channel_availability, running, retry_queue, stats,
                   dispatching, rw, notif_created, sendlog>>

Next ==
    \/ Tick
    \/ Start
    \/ \E w \in Wallets, ctx \in BOOLEAN : DispatchNotification(w, ctx)
    \/ \E d \in dispatching, ok \in BOOLEAN : SendDone(d, ok)
    \/ RetryWake
    \/ \E ok \in BOOLEAN : RetryDone(ok)
    \/ \E c \in Channels : StartBackgroundTasks(c)
    \/ \E k \in Keys : FlushKey(k)

Spec == Init /\ [][Next]_vars

(***************************************************************************)
(* The retry worker on a loop that is not blocked: the worker is resumed   *)
(* when its sleep is over and a retried send returns before the clock      *)
(* moves on.                                                               *)
(***************************************************************************)
\* The worker's sleep is over and it has not been resumed yet.
WorkerDue == running /\ rw.pc = "sleep" /\ now >= rw.wake

TimelyTick ==
    /\ now + TickStep <= MaxRetryTime
    /\ ~WorkerDue
    /\ rw.pc # "send"
    /\ now' = now + TickStep
    /\ UNCHANGED <<window_sends, limiterVars, dispatcherVars, engineVars, clientVars>>

RetryNext ==
    \/ TimelyTick
    \/ Start
    \/ \E w \in Wallets, ctx \in BOOLEAN : DispatchNotification(w, ctx)
    \/ \E d \in dispatching, ok \in BOOLEAN : SendDone(d, ok)
    \/ RetryWake
    \/ \E ok \in BOOLEAN : RetryDone(ok)

\* The clock advances, the worker's sleep ends and a send returns.
RetryFairSpec ==
    /\ Init
    /\ [][RetryNext]_vars
    /\ WF_vars(TimelyTick)
    /\ WF_vars(RetryWake)
    /\ WF_vars(\E ok \in BOOLEAN : RetryDone(ok))

(***************************************************************************)
(* The rate limiter of one channel under the traffic of _send_to_channel,  *)
(* with sends that take no time: every admitted request is a send.         *)
(***************************************************************************)
\* The sends of a key that lie inside the window ending at time t.
InWindow(sends, cfg, t) == SelectSeq(sends, LAMBDA s : s > t - cfg.window_seconds)

\* One channel is in use: a sliding-window one or the token-bucket one.
LimiterConfigs == {{"discord"}, {"email"}}

LimiterInit ==
    /\ now = 0
    /\ channel_availability \in LimiterConfigs
    /\ channel_stats = [k \in Keys |-> NoStats]
    /\ InitLimiter
    /\ InitDispatcher
    /\ InitEngine
    /\ InitClient

\* _send_to_channel up to the send, for the given notification: the limiter admits the
\* request and the send is made, or refuses it and the notification is added to the
\* pending list of its key, with add_pending_event's default priority.
SendNotification(c, w, notification) ==
    LET key == GetKey(c, w)
        cfg == DEFAULT_RATE_LIMITS[c]
        res == CanSendRequest(channel_stats[key], cfg, now)
    IN  /\ c \in channel_availability
        /\ Len(window_sends[key]) + Len(pending_events[key]) + 1 <= MaxRequests
        /\ channel_stats' = [channel_stats EXCEPT ![key] = res.stats]
        /\ IF res.ok
           THEN /\ window_sends' = [window_sends EXCEPT
                                      ![key] = Append(InWindow(@, cfg, now), now)]
                /\ UNCHANGED pending_events
           ELSE /\ pending_events' = [pending_events EXCEPT
                                        ![key] = AddPendingEvent(@, notification, 0)]
                /\ UNCHANGED window_sends
        /\ UNCHANGED <<now, limiter_running, dispatcherVars, engineVars, clientVars>>

\* The notifications of a key are numbered in the order of the calls.
SendToChannel(c, w) ==
    SendNotification(c, w, Len(window_sends[GetKey(c, w)])
                             + Len(pending_events[GetKey(c, w)]) + 1)

LimiterNext ==
    \/ Tick
    \/ \E c \in Channels, w \in Wallets : SendToChannel(c, w)
    \/ \E c \in Channels : StartBackgroundTasks(c)
    \/ \E k \in Keys : FlushKey(k)

LimiterSpec == LimiterInit /\ [][LimiterNext]_vars

(***************************************************************************)
(* The same limiter under notifications of alerts of every severity, as    *)
(* AlertEngine._create_notification makes them.                            *)
(***************************************************************************)
\* AlertSeverity.
Severities == {"info", "low", "medium", "high", "critical"}

\* _create_notification: the notification of an alert of a rule of the severity.
AlertNotification(severity) == [type |-> "alert", rule_severity |-> severity]

\* _send_to_channel for the notification of an alert.
SendAlert(c, w, severity) ==
    /\ Len(pending_events[GetKey(c, w)]) < MaxPending
    /\ SendNotification(c, w, AlertNotification(severity))

PendingNext ==
    \/ Tick
    \/ \E c \in Channels, w \in Wallets, severity \in Severities : SendAlert(c, w, severity)
    \/ \E c \in Channels : StartBackgroundTasks(c)
    \/ \E k \in Keys : FlushKey(k)

\* The token-bucket channel is in use: the one whose limiter refuses requests.
PendingInit ==
    /\ now = 0
    /\ channel_availability = {"email"}
    /\ channel_stats = [k \in Keys |-> NoStats]
    /\ InitLimiter
    /\ InitDispatcher
    /\ InitEngine
    /\ InitClient

PendingSpec == PendingInit /\ [][PendingNext]_vars

(***************************************************************************)
(* The token-bucket limiter under requests, its refill loop and its flush  *)
(* loop.                                                                   *)
(***************************************************************************)
\* RateLimiter._refill_loop, one pass of the limiter of channel c: every key that has
\* statistics is refilled up to the burst capacity.
RefillLoop(c) ==
    /\ limiter_running[c]
    /\ DEFAULT_RATE_LIMITS[c].strategy = "token_bucket"
    /\ channel_stats' = [k \in Keys |->
          IF k[1] = c /\ channel_stats[k] # NoStats
          THEN [channel_stats[k] EXCEPT
                  !.tokens = RefillTokens(channel_stats[k], DEFAULT_RATE_LIMITS[c], now),
                  !.last_refill = now]
          ELSE channel_stats[k]]
    /\ UNCHANGED <<now, window_sends, pending_events, limiter_running, dispatcherVars,
                   engineVars, clientVars>>

BucketNext ==
    \/ Tick
    \/ \E c \in Channels, w \in Wallets : SendToChannel(c, w)
    \/ \E c \in Channels : StartBackgroundTasks(c)
    \/ \E c \in Channels : RefillLoop(c)
    \/ \E k \in Keys : FlushKey(k)

BucketSpec == PendingInit /\ [][BucketNext]_vars

(***************************************************************************)
(* The monitor's event handler on the alert engine.                        *)
(***************************************************************************)
EngineInit ==
    /\ now = 0
    /\ channel_availability = {"discord", "email"}
    /\ channel_stats = [k \in Keys |-> NoStats]
    /\ InitLimiter
    /\ InitDispatcher
    /\ \E rl \in RuleSets : InitEngineWith(rl)
    /\ InitClient

EngineTick ==
    /\ now + EngineTickStep <= MaxEngineTime
    /\ now' = now + EngineTickStep
    /\ UNCHANGED <<window_sends, limiterVars, dispatcherVars, engineVars, clientVars>>

\* The state of the alert engine and of its rules engine, as one record.
EngineState ==
    [recent_events |-> recent_events, engine_stats |-> engine_stats,
     rule_stats |-> rule_stats, event_history |-> event_history, evaluated |-> evaluated]

\* RulesEngine.evaluate_event(e) at time t on the engine state s: the event is added to
\* the history and every enabled rule is evaluated.  The history variable `evaluated`
\* gets the event as it was stored, the time, the rules evaluated and those triggered,
\* and process_event adds the rules it created a notification for.
EvaluateEventOn(s, e, t) ==
    LET hist == AddToHistory(s.event_history, e, t)
        res  == EvaluateFrom(rules, 1, e, hist, s.rule_stats, t)
    IN  [s EXCEPT !.event_history = hist,
                  !.rule_stats = res.rule_stats,
                  !.evaluated = Append(@, [fp |-> CreateEventFingerprint(e), at |-> t,
                                           event |-> Stamp(e, t), order |-> res.order,
                                           triggered |-> res.triggered,
                                           notifications |-> <<>>,
                                           size_class |-> None])]

\* AlertEngine.process_event(e) at time t on the engine state s: the event is counted, a
\* duplicate is dropped, any other event is classified if the engine has a classifier,
\* is given to RulesEngine.evaluate_event, and a notification is created per triggered
\* rule.
ProcessEventOn(s, e, t) ==
    LET fp == CreateEventFingerprint(e)
        ev == EvaluateEventOn(s, e, t)
        triggered_rules == ev.evaluated[Len(ev.evaluated)].triggered
        n  == Len(triggered_rules)
    IN  IF IsDuplicateEvent(s.recent_events, fp, t)
        THEN [s EXCEPT !.engine_stats.events_processed = @ + 1]
        ELSE [ev EXCEPT !.recent_events = TrackEvent(s.recent_events, fp, t),
                        !.evaluated[Len(ev.evaluated)].notifications = triggered_rules,
                        !.evaluated[Len(ev.evaluated)].size_class =
                            IF position_classifier = None THEN None
                            ELSE AnalyzePosition(e),
                        !.engine_stats = [@ EXCEPT !.events_processed = @ + 1,
                                                   !.alerts_triggered = @ + n,
                                                   !.notifications_sent = @ + n]]

\* The engine variables take the values of the record s.
SetEngineState(s) ==
    /\ recent_events' = s.recent_events
    /\ engine_stats' = s.engine_stats
    /\ rule_stats' = s.rule_stats
    /\ event_history' = s.event_history
    /\ evaluated' = s.evaluated
    /\ UNCHANGED <<rules, expected, fingerprints, classified, tracker, instances>>

\* HyperLiquidWalletTracker._handle_event(e): the event goes through
\* AlertEngine.process_event; the handler does nothing with the returned notifications.
ProcessEvent(e) ==
    /\ SetEngineState(ProcessEventOn(EngineState, e, now))
    /\ UNCHANGED <<limiterVars, dispatcherVars>>

HandleEvent(e) ==
    /\ engine_stats.events_processed < MaxEvents
    /\ ProcessEvent(e)
    /\ UNCHANGED <<now, window_sends, clientVars>>

EngineNext ==
    \/ EngineTick
    \/ \E e \in EventInputs : HandleEvent(e)

EngineSpec == EngineInit /\ [][EngineNext]_vars

(***************************************************************************)
(* The rules engine on its own: RulesEngine.evaluate_event called until    *)
(* the history has had more events than it holds.  The history is filled   *)
(* with one event up to RingExtra places below its size; from there on any *)
(* event is evaluated.                                                     *)
(***************************************************************************)
RingFillEvent ==
    [type |-> "userFills", wallet |-> "0xbbbbbb02", coin |-> "BTC", side |-> "BUY",
     usd_value |-> 10000, size |-> Absent, price |-> Absent, timestamp |-> Absent,
     data |-> NoFill]

RingInit ==
    /\ now = 0
    /\ channel_availability = {"discord", "email"}
    /\ channel_stats = [k \in Keys |-> NoStats]
    /\ InitLimiter
    /\ InitDispatcher
    /\ InitEngine
    /\ InitClient

\* RulesEngine.evaluate_event(e).
EvaluateEvent(e) ==
    /\ Len(evaluated) < max_history_size + RingExtra
    /\ Len(evaluated) < max_history_size - RingExtra => e = RingFillEvent
    /\ SetEngineState(EvaluateEventOn(EngineState, e, now))
    /\ UNCHANGED <<now, window_sends, limiterVars, dispatcherVars, clientVars>>

RingNext == \E e \in EventInputs : EvaluateEvent(e)

RingSpec == RingInit /\ [][RingNext]_vars

(***************************************************************************)
(* RulesEngine under add_rule, remove_rule, enable_rule and disable_rule   *)
(* called between the events.                                              *)
(***************************************************************************)
\* The names the mutations are called with, and the rules add_rule is called with: a
\* rule with a new name, and a rule with the name of a default rule.
RuleNames == {"medium_position", "tiny_position"}

RuleInputs == {
    [name |-> "tiny_position", condition |-> "position_size", severity |-> "info",
     enabled |-> TRUE, threshold |-> 100, time_window |-> Absent,
     custom_condition |-> None],
    [name |-> "medium_position", condition |-> "position_size", severity |-> "medium",
     enabled |-> TRUE, threshold |-> 5000, time_window |-> Absent,
     custom_condition |-> None]}

\* The position of the first rule of rl with the name, 0 if there is none.
FirstNamed(rl, name) ==
    IF \E i \in 1..Len(rl) : rl[i].name = name
    THEN CHOOSE i \in 1..Len(rl) :
            rl[i].name = name /\ \A j \in 1..(i - 1) : rl[j].name # name
    ELSE 0

\* enable_rule and disable_rule: the loop that ends at the first rule with the name.
SetEnabled(rl, name, value) ==
    IF FirstNamed(rl, name) = 0 THEN rl
    ELSE [rl EXCEPT ![FirstNamed(rl, name)].enabled = value]

\* What the mutation leaves of the other engine variables.
MutationFrame ==
    /\ expected.mutations < MaxMutations
    /\ UNCHANGED <<recent_events, engine_stats, event_history, evaluated, fingerprints,
                   classified, tracker, instances>>
    /\ UNCHANGED <<now, window_sends, limiterVars, dispatcherVars, clientVars>>

AddRuleWithoutStats(rule) ==
    /\ rules' = Append(rules, rule)
    /\ UNCHANGED rule_stats
    /\ expected' = [expected EXCEPT !.mutations = @ + 1]
    /\ MutationFrame

\* add_rule: the rule is appended and its name gets a fresh statistics record.
AddRule(rule) ==
    /\ rules' = Append(rules, rule)
    /\ rule_stats' = [n \in DOMAIN rule_stats \cup {rule.name} |->
                         IF n = rule.name
                         THEN [triggered_count |-> 0, last_triggered |-> Absent,
                               total_events |-> 0]
                         ELSE rule_stats[n]]
    /\ expected' = [on |-> IF rule.enabled THEN expected.on \cup {rule.name}
                           ELSE expected.on \ {rule.name},
                    off |-> expected.off \ {rule.name},
                    mutations |-> expected.mutations + 1]
    /\ MutationFrame

RemoveRule(name) ==
    /\ rules' = SelectSeq(rules, LAMBDA r : r.name # name)
    /\ rule_stats' = [n \in DOMAIN rule_stats \ {name} |-> rule_stats[n]]
    /\ expected' = [on |-> expected.on \ {name}, off |-> expected.off \cup {name},
                    mutations |-> expected.mutations + 1]
    /\ MutationFrame

EnableRule(name) ==
    /\ rules' = SetEnabled(rules, name, TRUE)
    /\ expected' = IF FirstNamed(rules, name) = 0
                   THEN [expected EXCEPT !.mutations = @ + 1]
                   ELSE [on |-> expected.on \cup {name}, off |-> expected.off \ {name},
                         mutations |-> expected.mutations + 1]
    /\ UNCHANGED rule_stats
    /\ MutationFrame

DisableRule(name) ==
    /\ rules' = SetEnabled(rules, name, FALSE)
    /\ expected' = [on |-> expected.on \ {name}, off |-> expected.off \cup {name},
                    mutations |-> expected.mutations + 1]
    /\ UNCHANGED rule_stats
    /\ MutationFrame

\* RulesEngine.evaluate_event(e) between the mutations.
EvaluateNext(e) ==
    /\ Len(evaluated) < MaxRuleEvents
    /\ SetEngineState(EvaluateEventOn(EngineState, e, now))
    /\ UNCHANGED <<now, window_sends, limiterVars, dispatcherVars, clientVars>>

RulesNext ==
    \/ \E e \in EventInputs : EvaluateNext(e)
    \/ \E rule \in RuleInputs : AddRule(rule)
    \/ \E name \in RuleNames : RemoveRule(name)
    \/ \E name \in RuleNames : EnableRule(name)
    \/ \E name \in RuleNames : DisableRule(name)

RulesSpec == RingInit /\ [][RulesNext]_vars

(***************************************************************************)
(* Two RulesEngine instances.  A rule is an object and a rule list is an   *)
(* object: instances.objects[id] is the AlertRule with the identity id,    *)
(* instances.lists[l] is the list with the identity l, a sequence of rule  *)
(* identities, and an engine's rules attribute is the identity of its      *)
(* list.  List 1 is the module-level list DEFAULT_RULES and list 2 is a    *)
(* list of rules that one caller made for one engine.                      *)
(***************************************************************************)
Engines == {"first", "second"}

DefaultList == 1

CustomList == 2

NewStats == [triggered_count |-> 0, last_triggered |-> Absent, total_events |-> 0]

\* The rules of a list, in its order.
Deref(inst, l) == [i \in 1..Len(inst.lists[l]) |-> inst.objects[inst.lists[l][i]]]

\* RulesEngine.rules of engine e.
RulesOf(inst, e) == Deref(inst, inst.engines[e].rules)

\* RulesEngine.__init__(rules): `self.rules = rules or DEFAULT_RULES` binds the list that
\* was passed, or the module-level list, and every rule name gets a statistics record.
NewRulesEngine(inst, l) ==
    [rules |-> l,
     rule_stats |-> [n \in {Deref(inst, l)[i].name : i \in 1..Len(inst.lists[l])} |-> NewStats]]

\* The objects before an engine is constructed: the default rules and a caller's rules.
ModuleHeap ==
    [constructed |-> TRUE,
     objects |-> DEFAULT_RULES \o CUSTOM_RULES,
     lists |-> <<[i \in 1..Len(DEFAULT_RULES) |-> i],
                 [i \in 1..Len(CUSTOM_RULES) |-> Len(DEFAULT_RULES) + i]>>,
     mutated |-> None, mutations |-> 0]

\* The first engine is RulesEngine(); the second is RulesEngine() or RulesEngine(rules)
\* with the caller's list.
SharedInit ==
    /\ now = 0
    /\ channel_availability = {"discord", "email"}
    /\ channel_stats = [k \in Keys |-> NoStats]
    /\ InitLimiter
    /\ InitDispatcher
    /\ InitAlertEngine(DEFAULT_RULES)
    /\ fingerprints = EventPair(PipelineEvent(None, None, NoFill),
                                PipelineEvent(None, None, NoFill))
    /\ classified = NoClassification
    /\ InitTracker
    /\ \E l \in {DefaultList, CustomList} :
          instances = [engines |-> [e \in Engines |->
                                       IF e = "first"
                                       THEN NewRulesEngine(ModuleHeap, DefaultList)
                                       ELSE NewRulesEngine(ModuleHeap, l)]]
                      @@ ModuleHeap
    /\ InitClient

\* What a mutation called on engine e leaves alone, and its record in the history.
Mutated(inst, e) == [inst EXCEPT !.mutated = e, !.mutations = @ + 1]

InstancesFrame ==
    /\ instances.mutations < MaxMutations
    /\ UNCHANGED <<recent_events, engine_stats, rules, rule_stats, event_history, evaluated,
                   expected, fingerprints, classified, tracker>>
    /\ UNCHANGED <<now, window_sends, limiterVars, dispatcherVars, clientVars>>

\* add_rule on engine e: `self.rules.append(rule)` appends to the list the engine is
\* bound to, in place.
AddRuleOn(e, rule) ==
    /\ InstancesFrame
    /\ LET l == instances.engines[e].rules
           id == Len(instances.objects) + 1
           rs == instances.engines[e].rule_stats
       IN  instances' = Mutated(
              [instances EXCEPT
                 !.objects = Append(@, rule),
                 !.lists[l] = Append(@, id),
                 !.engines[e].rule_stats =
                     [n \in DOMAIN rs \cup {rule.name} |->
                         IF n = rule.name THEN NewStats ELSE rs[n]]], e)

\* remove_rule on engine e: `self.rules = [r for r in self.rules if ...]` binds the
\* engine to a new list; the list it was bound to is left as it is.
RemoveRuleOn(e, name) ==
    /\ InstancesFrame
    /\ LET l == instances.engines[e].rules
           rs == instances.engines[e].rule_stats
           kept == SelectSeq(instances.lists[l], LAMBDA id : instances.objects[id].name # name)
       IN  instances' = Mutated(
              [instances EXCEPT
                 !.lists = Append(@, kept),
                 !.engines[e].rules = Len(instances.lists) + 1,
                 !.engines[e].rule_stats = [n \in DOMAIN rs \ {name} |-> rs[n]]], e)

\* enable_rule and disable_rule on engine e: the enabled attribute of the first rule
\* object with the name in the engine's list is assigned.
SetEnabledOn(e, name, value) ==
    /\ InstancesFrame
    /\ LET l == instances.engines[e].rules
           i == FirstNamed(RulesOf(instances, e), name)
       IN  instances' = Mutated(
              IF i = 0 THEN instances
              ELSE [instances EXCEPT !.objects[instances.lists[l][i]].enabled = value], e)

EnableRuleOn(e, name) == SetEnabledOn(e, name, TRUE)

DisableRuleOn(e, name) == SetEnabledOn(e, name, FALSE)

\* The names a mutation is called with: a default rule, a rule of both lists, and a
\* rule that only add_rule brings.
SharedNames == {"whale_position", "medium_position", "tiny_position"}

SharedNext ==
    \/ \E e \in Engines, rule \in RuleInputs : AddRuleOn(e, rule)
    \/ \E e \in Engines, name \in SharedNames : RemoveRuleOn(e, name)
    \/ \E e \in Engines, name \in SharedNames : EnableRuleOn(e, name)
    \/ \E e \in Engines, name \in SharedNames : DisableRuleOn(e, name)

SharedSpec == SharedInit /\ [][SharedNext]_vars

(***************************************************************************)
(* PositionClassifier.classify_position and the two _extract_usd_value     *)
(* functions on one event, for a classifier constructed with a threshold   *)
(* configuration.                                                          *)
(***************************************************************************)
\* The events: every key is missing or has a value, which may be zero.
UsdEventInputs ==
    [usd_value : {Absent, 0, 50000}, total_value : {Absent, 1500},
     price : {Absent, 0, 2000}, limit_px : {Absent, 0, 100}, execution_price : {Absent, 300},
     size : {Absent, 0, 5}, quantity : {Absent, 0, 7}, amount : {Absent, 20}]

\* The threshold configurations: the defaults, and configurations that config.py and
\* the command line accept with the thresholds out of order.
ThresholdInputs == {
    PositionThresholds,
    [PositionThresholds EXCEPT !.whale_threshold = 5000],
    [PositionThresholds EXCEPT !.notable_threshold = 20000],
    [PositionThresholds EXCEPT !.medium_threshold = 100000]}

ClassifierInit ==
    /\ now = 0
    /\ channel_availability = {"discord", "email"}
    /\ channel_stats = [k \in Keys |-> NoStats]
    /\ InitLimiter
    /\ InitDispatcher
    /\ InitAlertEngine(DEFAULT_RULES)
    /\ fingerprints = EventPair(PipelineEvent(None, None, NoFill),
                                PipelineEvent(None, None, NoFill))
    /\ instances = NoInstances
    /\ InitTracker
    /\ \E e \in UsdEventInputs, th \in ThresholdInputs :
          classified = [computed |-> FALSE, event |-> e, thresholds |-> th,
                        size_class |-> None, classifier_usd |-> Absent,
                        rules_usd |-> Absent]
    /\ InitClient

\* The event is classified, and each engine derives its USD value.
Classify ==
    /\ ~classified.computed
    /\ classified' = [classified EXCEPT
          !.computed = TRUE,
          !.size_class = ClassifyPositionWith(classified.thresholds, classified.event),
          !.classifier_usd = ClassifierUsdValue(classified.event),
          !.rules_usd = ExtractUsdValue(classified.event)]
    /\ UNCHANGED <<recent_events, engine_stats, rules, rule_stats, event_history, evaluated,
                   expected, fingerprints, tracker, instances>>
    /\ UNCHANGED <<now, window_sends, limiterVars, dispatcherVars, clientVars>>

ClassifierNext == Classify

ClassifierSpec == ClassifierInit /\ [][ClassifierNext]_vars

(***************************************************************************)
(* HyperLiquidWalletTracker.start and stop.  start() awaits nothing that   *)
(* suspends before its call of AlertEngine(config=...,                     *)
(* notification_dispatcher=...); AlertEngine.__init__ takes the keywords   *)
(* rules_engine, position_classifier and notification_formatter only, so   *)
(* the call raises TypeError, and the except clause calls stop() and       *)
(* raises again.  Up to there start() is one step.                         *)
(***************************************************************************)
\* NotificationDispatcher.start: the flag and the retry worker it creates.
DispatcherStarted(t) == [running |-> TRUE, rw |-> RwSleep(t)]

\* NotificationDispatcher.stop: the flag is cleared and the worker is cancelled.
DispatcherStopped ==
    [running |-> FALSE,
     rw |-> [pc |-> "idle", wake |-> 0, scan_now |-> 0, items |-> <<>>, cur |-> NoItem]]

\* HyperLiquidWalletTracker.stop, its effect on the dispatcher disp: nothing is done
\* unless is_running is set.
TrackerStop(is_running, disp) == IF ~is_running THEN disp ELSE DispatcherStopped

TrackerStart ==
    /\ tracker.pc = "init"
    /\ ~tracker.is_running
    /\ LET disp == TrackerStop(tracker.is_running, DispatcherStarted(now))
       IN  running' = disp.running /\ rw' = disp.rw
    /\ tracker' = [tracker EXCEPT !.pc = "raised"]
    /\ UNCHANGED <<recent_events, engine_stats, rules, rule_stats, event_history, evaluated,
                   expected, fingerprints, classified, instances>>
    /\ UNCHANGED <<now, window_sends, limiterVars, clientVars>>
    /\ UNCHANGED <<channel_availability, retry_queue, stats, dispatching, notif_created,
                   sendlog>>

\* The tracker's start and, as time passes, the dispatcher's retry worker.
TrackerNext ==
    \/ Tick
    \/ TrackerStart
    \/ RetryWake

TrackerSpec == Init /\ [][TrackerNext]_vars

(***************************************************************************)
(* AlertEngine._create_event_fingerprint on two events.                    *)
(***************************************************************************)
\* The events: every field of the fingerprint is present or absent, the coin may be a
\* string a side can be, and the timestamp, which is no field of the fingerprint, varies.
FingerprintInputs ==
    [type : {None, "userFills"}, wallet : {None, "0xaaaaaa01"}, coin : {None, "BTC", "BUY"},
     side : {None, "BUY"}, usd_value : {Absent, 50000}, size : {Absent, 25},
     price : {Absent, 50000}, timestamp : {Absent, IsoString}, data : {NoFill}]

FingerprintInit ==
    /\ now = 0
    /\ channel_availability = {"discord", "email"}
    /\ channel_stats = [k \in Keys |-> NoStats]
    /\ InitLimiter
    /\ InitDispatcher
    /\ InitAlertEngine(DEFAULT_RULES)
    /\ instances = NoInstances
    /\ classified = NoClassification
    /\ InitTracker
    /\ fingerprints \in {EventPair(a, b) : a \in FingerprintInputs, b \in FingerprintInputs}
    /\ InitClient

\* _create_event_fingerprint is called on each of the two events.
ComputeFingerprints ==
    /\ ~fingerprints.computed
    /\ fingerprints' = [fingerprints EXCEPT !.computed = TRUE,
                                            !.fa = CreateEventFingerprint(fingerprints.a),
                                            !.fb = CreateEventFingerprint(fingerprints.b)]
    /\ UNCHANGED <<recent_events, engine_stats, rules, rule_stats, event_history, evaluated,
                   expected, classified, tracker, instances>>
    /\ UNCHANGED <<now, window_sends, limiterVars, dispatcherVars, clientVars>>

FingerprintNext == ComputeFingerprints

FingerprintSpec == FingerprintInit /\ [][FingerprintNext]_vars

(***************************************************************************)
(* WebSocketClient.run, connection_monitor and shutdown, each cut at its   *)
(* awaits, against a server that may send frames and close connections.    *)
(***************************************************************************)
nonClient == <<now, window_sends, limiterVars, dispatcherVars, engineVars>>

\* run: the test of the while loop, and the connect() it goes on to.
LoopTop == IF is_shutting_down THEN "returned" ELSE "connecting"

\* run: the progressive backoff.
ReconnectDelayFlat(failures) == IF failures <= 3 THEN 2 ELSE 5

ReconnectDelay(failures) ==
    IF failures <= 3 THEN 2 ELSE IF failures <= 10 THEN 5 ELSE Min(30, failures)

\* run: what follows the finally block.  A `continue` goes to the loop test; otherwise
\* the backoff sleep is taken unless the client is shutting down.
LeaveFinally(cont, failures) ==
    /\ after_finally' = "none"
    /\ IF cont \/ is_shutting_down
       THEN ws_pc' = LoopTop /\ reconnect_delay' = 0
       ELSE ws_pc' = "backoff" /\ reconnect_delay' = ReconnectDelay(failures)

\* run: the finally block on statistics st; a health task that is not done is cancelled
\* and awaited.
EnterFinally(cont, st) ==
    /\ cstats' = [st EXCEPT !.connected = FALSE]
    /\ IF health_check_task \in {"start", "sleep"}
       THEN /\ health_check_task' = "done"
            /\ ws_pc' = "finally"
            /\ after_finally' = IF cont THEN "continue" ELSE "backoff"
            /\ UNCHANGED reconnect_delay
       ELSE /\ UNCHANGED health_check_task
            /\ LeaveFinally(cont, st.consecutive_failures)

RunStart ==
    /\ ws_pc = "init"
    /\ ws_pc' = LoopTop
    /\ UNCHANGED <<is_shutting_down, websocket, cstats, subscribed_wallets, sub_loop,
                   health_check_task, shutdown_pc, after_finally, reconnect_delay, conn>>
    /\ UNCHANGED <<nonClient, framelog>>

\* connect() returns.  On success the health task is created if there is none running
\* and subscribe_to_all_wallets begins; on failure run goes to its finally block.
ConnectDone(ok) ==
    /\ ws_pc = "connecting"
    /\ IF ok
       THEN /\ websocket' = "open"
            /\ conn' = [requests |-> {}, forwarded |-> FALSE]
            /\ cstats' = [cstats EXCEPT !.connected = TRUE,
                                        !.reconnect_count = Bump(@, MaxConnects),
                                        !.consecutive_failures = 0]
            /\ health_check_task' = IF health_check_task \in {"none", "done"}
                                    THEN "start" ELSE health_check_task
            /\ ws_pc' = "subscribing"
            /\ sub_loop' = [idx |-> 1, success_count |-> 0]
            /\ UNCHANGED <<after_finally, reconnect_delay>>
       ELSE /\ EnterFinally(FALSE, [cstats EXCEPT
                                      !.consecutive_failures = Bump(@, MaxFailures)])
            /\ UNCHANGED <<websocket, conn, sub_loop>>
    /\ UNCHANGED <<is_shutting_down, subscribed_wallets, shutdown_pc>>
    /\ UNCHANGED <<nonClient, framelog>>

\* One round of subscribe_to_all_wallets' loop: subscribe_to_wallet, then the pause.  A
\* key that is in subscribed_wallets counts as a success and nothing is sent; a send
\* that fails has lost the connection.  After the last round run reads frames if any
\* round succeeded, and takes `continue` otherwise.
SubscribeStep(send_ok) ==
    LET key     == SubKeys[sub_loop.idx]
        open    == websocket = "open"
        sends   == open /\ key \notin subscribed_wallets
        sent    == sends /\ send_ok
        success == open /\ (key \in subscribed_wallets \/ send_ok)
        count   == sub_loop.success_count + (IF success THEN 1 ELSE 0)
        st      == [cstats EXCEPT !.subscription_count = IF sent THEN @ + 1 ELSE @]
    IN  /\ ws_pc = "subscribing"
        /\ ~sends => send_ok
        /\ subscribed_wallets' = IF sent THEN subscribed_wallets \cup {key}
                                 ELSE subscribed_wallets
        /\ conn' = IF sent THEN [conn EXCEPT !.requests = @ \cup {key}] ELSE conn
        /\ websocket' = IF sends /\ ~send_ok THEN "closed_err" ELSE websocket
        /\ IF sub_loop.idx < Len(SubKeys)
           THEN /\ sub_loop' = [idx |-> sub_loop.idx + 1, success_count |-> count]
                /\ cstats' = st
                /\ UNCHANGED <<ws_pc, health_check_task, after_finally, reconnect_delay>>
           ELSE /\ sub_loop' = [idx |-> 1, success_count |-> 0]
                /\ IF count > 0
                   THEN /\ ws_pc' = "reading"
                        /\ cstats' = st
                        /\ UNCHANGED <<health_check_task, after_finally, reconnect_delay>>
                   ELSE EnterFinally(TRUE, st)
        /\ UNCHANGED <<is_shutting_down, shutdown_pc>>
        /\ UNCHANGED <<nonClient, framelog>>

\* The event handler on the events es, one after the other, from the engine state s.
RECURSIVE HandleAll(_, _, _)
HandleAll(s, es, t) ==
    IF es = <<>> THEN s
    ELSE HandleAll(ProcessEventOn(s, PipelineEvent(Head(es).type, Head(es).wallet,
                                                   Head(es).data), t),
                   Tail(es), t)

\* The read loop takes the frame f and awaits handle_message(f), which counts the frame
\* and, for a frame that is JSON, awaits the event handler for each of its events; a
\* frame that is not JSON is logged.  Nothing in the handler suspends, so the next
\* frame is taken when the handler has returned for every event of this one.
ReceiveFrame(f) ==
    LET es == FrameEvents(f)
    IN  /\ ws_pc = "reading"
        /\ websocket = "open"
        /\ cstats.total_messages < MaxFrames
        /\ cstats' = [cstats EXCEPT !.total_messages = @ + 1,
                                    !.successful_parses = @ + Len(es)]
        /\ conn' = [conn EXCEPT !.forwarded = @ \/ es # <<>>]
        /\ framelog' = Append(framelog, [frame |-> f, events |-> es])
        /\ SetEngineState(HandleAll(EngineState, es, now))
        /\ UNCHANGED <<limiterVars, dispatcherVars>>
        /\ UNCHANGED <<now, window_sends>>
        /\ UNCHANGED <<ws_pc, is_shutting_down, websocket, subscribed_wallets, sub_loop,
                       health_check_task, shutdown_pc, after_finally, reconnect_delay>>

\* The read loop ends because the connection is closed: without an exception after a
\* normal closure, with ConnectionClosed otherwise.
ReadEnd ==
    /\ ws_pc = "reading"
    /\ websocket \in {"closed_ok", "closed_err"}
    /\ EnterFinally(FALSE, [cstats EXCEPT !.consecutive_failures =
                               IF websocket = "closed_err" THEN Bump(@, MaxFailures) ELSE @])
    /\ UNCHANGED <<is_shutting_down, websocket, subscribed_wallets, sub_loop, shutdown_pc,
                   conn>>
    /\ UNCHANGED <<nonClient, framelog>>

\* The await of the cancelled health task in the finally block returns.
FinallyDone ==
    /\ ws_pc = "finally"
    /\ LeaveFinally(after_finally = "continue", cstats.consecutive_failures)
    /\ UNCHANGED <<is_shutting_down, websocket, cstats, subscribed_wallets, sub_loop,
                   health_check_task, shutdown_pc, conn>>
    /\ UNCHANGED <<nonClient, framelog>>

\* The backoff sleep is over.
BackoffDone ==
    /\ ws_pc = "backoff"
    /\ ws_pc' = LoopTop
    /\ reconnect_delay' = 0
    /\ UNCHANGED <<is_shutting_down, websocket, cstats, subscribed_wallets, sub_loop,
                   health_check_task, shutdown_pc, after_finally, conn>>
    /\ UNCHANGED <<nonClient, framelog>>

\* connection_monitor: the test of its while loop, and the sleep it goes on to.
MonitorLoop == IF is_shutting_down THEN "done" ELSE "sleep"

MonitorStart ==
    /\ health_check_task = "start"
    /\ health_check_task' = MonitorLoop
    /\ UNCHANGED <<ws_pc, is_shutting_down, websocket, cstats, subscribed_wallets, sub_loop,
                   shutdown_pc, after_finally, reconnect_delay, conn>>
    /\ UNCHANGED <<nonClient, framelog>>

\* connection_monitor: the failures at which it closes the socket and ends.
ClosesAfterOne(failures) == failures >= 1

ClosesAfter(failures) == failures >= 2

\* connection_monitor wakes and runs health_check: it fails when there is no open
\* connection or the ping cannot be sent.  The second failure in a row closes the socket
\* and ends the monitor.
MonitorCheck(ping_ok) ==
    LET healthy  == websocket = "open" /\ ping_ok
        failures == Bump(cstats.consecutive_failures, MaxFailures)
    IN  /\ health_check_task = "sleep"
        /\ websocket # "open" => ping_ok
        /\ IF healthy
           THEN /\ cstats' = [cstats EXCEPT !.consecutive_failures = 0]
                /\ health_check_task' = MonitorLoop
                /\ UNCHANGED websocket
           ELSE /\ cstats' = [cstats EXCEPT !.consecutive_failures = failures]
                /\ IF ClosesAfter(failures)
                   THEN /\ websocket' = IF websocket = "open" THEN "closed_ok" ELSE websocket
                        /\ health_check_task' = "done"
                   ELSE /\ health_check_task' = MonitorLoop
                        /\ UNCHANGED websocket
        /\ UNCHANGED <<ws_pc, is_shutting_down, subscribed_wallets, sub_loop, shutdown_pc,
                       after_finally, reconnect_delay, conn>>
        /\ UNCHANGED <<nonClient, framelog>>

\* The server, or the network, closes the connection: normally or with an error.
ServerClose(how) ==
    /\ websocket = "open"
    /\ websocket' = how
    /\ UNCHANGED <<ws_pc, is_shutting_down, cstats, subscribed_wallets, sub_loop,
                   health_check_task, shutdown_pc, after_finally, reconnect_delay, conn>>
    /\ UNCHANGED <<nonClient, framelog>>

\* shutdown() up to its first await: the flag is set; a health task that is not done is
\* cancelled and awaited; otherwise an open socket is closed at once.
Shutdown ==
    /\ shutdown_pc = "idle"
    /\ is_shutting_down' = TRUE
    /\ IF health_check_task \in {"start", "sleep"}
       THEN /\ health_check_task' = "done"
            /\ shutdown_pc' = "await_task"
            /\ UNCHANGED websocket
       ELSE /\ websocket' = IF websocket = "open" THEN "closed_ok" ELSE websocket
            /\ shutdown_pc' = "done"
            /\ UNCHANGED health_check_task
    /\ UNCHANGED <<ws_pc, cstats, subscribed_wallets, sub_loop, after_finally,
                   reconnect_delay, conn>>
    /\ UNCHANGED <<nonClient, framelog>>

\* shutdown() after the await of the health task: an open socket is closed.
ShutdownClose ==
    /\ shutdown_pc = "await_task"
    /\ websocket' = IF websocket = "open" THEN "closed_ok" ELSE websocket
    /\ shutdown_pc' = "done"
    /\ UNCHANGED <<ws_pc, is_shutting_down, cstats, subscribed_wallets, sub_loop,
                   health_check_task, after_finally, reconnect_delay, conn>>
    /\ UNCHANGED <<nonClient, framelog>>

ClientInit ==
    /\ now = 0
    /\ channel_availability = {"discord", "email"}
    /\ channel_stats = [k \in Keys |-> NoStats]
    /\ InitLimiter
    /\ InitDispatcher
    /\ InitEngine
    /\ InitClient

\* The steps of run().
RunStep ==
    \/ RunStart
    \/ \E ok \in BOOLEAN : ConnectDone(ok)
    \/ \E ok \in BOOLEAN : SubscribeStep(ok)
    \/ ReadEnd
    \/ FinallyDone
    \/ BackoffDone

\* The steps of the connection_monitor task.
MonitorStep ==
    \/ MonitorStart
    \/ \E ok \in BOOLEAN : MonitorCheck(ok)

ClientNext ==
    \/ RunStart /\ UNCHANGED session
    \/ \E ok \in BOOLEAN : ConnectDone(ok) /\ UNCHANGED session
    \/ \E ok \in BOOLEAN : SubscribeStep(ok) /\ UNCHANGED session
    \/ ReadEnd /\ UNCHANGED session
    \/ FinallyDone /\ UNCHANGED session
    \/ BackoffDone /\ UNCHANGED session
    \/ MonitorStart /\ UNCHANGED session
    \/ \E ok \in BOOLEAN : MonitorCheck(ok) /\ UNCHANGED session
    \/ \E f \in FrameInputs : ReceiveFrame(f) /\ UNCHANGED session
    \/ \E how \in {"closed_ok", "closed_err"} : ServerClose(how) /\ UNCHANGED session
    \/ Shutdown /\ UNCHANGED session
    \/ ShutdownClose /\ UNCHANGED session

ClientSpec == ClientInit /\ [][ClientNext]_vars

\* The event loop runs every coroutine that is ready, and a connection attempt ends;
\* nothing obliges the server to send a frame or to close a connection.
ClientFairSpec ==
    /\ ClientSpec
    /\ WF_vars(RunStep /\ UNCHANGED session)
    /\ WF_vars(MonitorStep /\ UNCHANGED session)
    /\ WF_vars(ShutdownClose /\ UNCHANGED session)

(***************************************************************************)
(* The same client with the history of its connections: what each step of  *)
(* run() and of connection_monitor did is read off the variables it wrote. *)
(***************************************************************************)
\* The frames of the connections.
SessionFrames == {Frame(TRUE, "userEvents", None, "dict", <<Elem(TRUE, "0xaaaaaa01", 1)>>)}

\* run() enters the backoff sleep: the delay it computed is recorded.
LogDelay(s) ==
    IF ws_pc # "backoff" /\ ws_pc' = "backoff" /\ s.closed # "no"
       /\ Len(s.delays) < MaxLogged
    THEN [s EXCEPT !.delays = Append(@, reconnect_delay')]
    ELSE s

\* connect() returned: a new connection, or one more failed attempt.
LogConnect(ok) ==
    IF ok THEN NewSession(cstats.consecutive_failures)
    ELSE LogDelay([session EXCEPT !.fails = IF session.closed # "no"
                                           THEN Bump(@, MaxLogged) ELSE @])

\* The read loop ended: how, and with what count of failures.
LogReadEnd ==
    LogDelay([session EXCEPT !.closed = websocket,
                             !.close_failures = cstats'.consecutive_failures])

\* health_check returned in connection_monitor.
LogProbe(ping_ok) ==
    LET healthy == websocket = "open" /\ ping_ok
    IN  [session EXCEPT
           !.failed_probes = IF healthy THEN 0 ELSE Bump(@, 2),
           !.monitor_closed = @ \/ (health_check_task' = "done" /\ ~is_shutting_down)]

SessionNext ==
    \/ RunStart /\ UNCHANGED session
    \/ \E ok \in BOOLEAN : ConnectDone(ok) /\ session' = LogConnect(ok)
    \/ \E ok \in BOOLEAN : SubscribeStep(ok) /\ UNCHANGED session
    \/ ReadEnd /\ session' = LogReadEnd
    \/ FinallyDone /\ session' = LogDelay(session)
    \/ BackoffDone /\ UNCHANGED session
    \/ MonitorStart /\ UNCHANGED session
    \/ \E ok \in BOOLEAN : MonitorCheck(ok) /\ session' = LogProbe(ok)
    \/ \E f \in SessionFrames :
          ReceiveFrame(f) /\ session' = [session EXCEPT !.frames = Bump(@, MaxFrames)]
    \/ \E how \in {"closed_ok", "closed_err"} : ServerClose(how) /\ UNCHANGED session
    \/ Shutdown /\ UNCHANGED session
    \/ ShutdownClose /\ UNCHANGED session

SessionSpec == ClientInit /\ [][SessionNext]_vars

(***************************************************************************)
(* Properties of the dispatcher.                                           *)
(***************************************************************************)
QueueCount(t) == Cardinality({i \in 1..Len(retry_queue) : TaskOf(retry_queue[i]) = t})

PendingCount(t) ==
    LET RECURSIVE CountIn(_)
        CountIn(q) == IF q = <<>> THEN 0
                      ELSE (IF Head(q).event = t[1] THEN 1 ELSE 0) + CountIn(Tail(q))
        RECURSIVE Total(_)
        Total(ks) == IF ks = {} THEN 0
                     ELSE LET k == CHOOSE x \in ks : TRUE
                          IN  CountIn(pending_events[k]) + Total(ks \ {k})
    IN  Total({k \in Keys : k[1] = t[2]})

InFlightDispatch(t) ==
    Cardinality({d \in dispatching : d.notification = t[1] /\ ChannelOrder[d.idx] = t[2]})

InFlightRetry(t) == IF rw.pc = "send" /\ TaskOf(rw.cur) = t THEN 1 ELSE 0

InFlight(t) == InFlightDispatch(t) + InFlightRetry(t)

\* C1 (as claimed): the sends a channel's limiter admitted for one key inside any window
\* of window_seconds never number more than max_requests.
C1_WindowLimit ==
    \A k \in Keys :
        Len(InWindow(window_sends[k], DEFAULT_RATE_LIMITS[k[1]], now))
            <= DEFAULT_RATE_LIMITS[k[1]].max_requests

\* C3: a dispatch task has at most one successful send; after its success the channel
\* send primitive is never invoked for it again, by the dispatch path or by the retry
\* worker, it waits in no list, and notifications_sent counts exactly the successes.
C3_AtMostOneSuccess ==
    /\ \A t \in Tasks :
         /\ sendlog[t].oks <= 1
         /\ ~sendlog[t].after_ok
         /\ sendlog[t].oks = 1 => InFlight(t) = 0 /\ QueueCount(t) = 0 /\ PendingCount(t) = 0
    /\ stats.notifications_sent = Cardinality({t \in Tasks : sendlog[t].oks = 1})

\* A task was delivered by a retry after its first send had failed.
C3_Witness == \E t \in Tasks : sendlog[t].oks = 1 /\ sendlog[t].retries >= 2

\* C4: no retry count exceeds max_retries, every item waiting in the retry queue has a
\* retry count below max_retries, and a task whose retries are exhausted is a terminal
\* failure that waits in no list and is not sent again.
C4_RetryCountBounded ==
    /\ \A i \in 1..Len(retry_queue) : retry_queue[i].retry_count < max_retries
    /\ rw.pc = "send" => rw.cur.retry_count <= max_retries
    /\ \A t \in Tasks :
         /\ sendlog[t].retries <= max_retries
         /\ sendlog[t].terminal => /\ sendlog[t].retries = max_retries
                                   /\ QueueCount(t) = 0
                                   /\ InFlight(t) = 0
         /\ (sendlog[t].retries = max_retries /\ sendlog[t].oks = 0 /\ InFlight(t) = 0)
               => sendlog[t].terminal /\ QueueCount(t) = 0
    /\ stats.notifications_failed =
         Cardinality({t \in Tasks : QueueCount(t) > 0 \/ sendlog[t].retries > 0})
         + Cardinality({t \in Tasks : sendlog[t].terminal})

\* A task failed its last allowed retry.
C4_Witness == \E t \in Tasks : sendlog[t].terminal /\ sendlog[t].retries = max_retries

\* C8 (as claimed): a notification the rate limiter refused leaves the pending list of
\* its key only when a send of it on the channel begins.
C8_PendingNeverDiscarded ==
    [][\A k \in Keys : \A i \in 1..Len(pending_events[k]) :
          \/ \E j \in 1..Len(pending_events'[k]) :
                pending_events'[k][j] = pending_events[k][i]
          \/ sendlog'[<<pending_events[k][i].event, k[1]>>].starts
               > sendlog[<<pending_events[k][i].event, k[1]>>].starts]_vars

\* C9: a dispatch task is at any time in at most one place: in flight with one worker
\* (the dispatch path or the retry worker), or once in one waiting list.
C9_NoConcurrentSends ==
    \A t \in Tasks : InFlight(t) + QueueCount(t) + PendingCount(t) <= 1

\* The dispatch path and the retry worker each have a send in flight.
C9_Witness == dispatching # {} /\ rw.pc = "send"

\* C10 (as claimed): a task whose initial send and first two retries failed and whose
\* third retry succeeded has one success, three retries, and each retry began no earlier
\* than 5 s, 10 s and 20 s after the beginning of its preceding attempt.
C10_RetryScenario ==
    \A t \in Tasks :
        (sendlog[t].starts = max_retries + 1 /\ sendlog[t].oks = 1)
            => sendlog[t].retries = max_retries /\ sendlog[t].gaps_ok

(***************************************************************************)
(* Properties of the alert engine.                                         *)
(***************************************************************************)
\* C2 (as claimed): every alert the rules engine triggered for an event the monitor
\* handled has reached the dispatcher as a notification, and the dispatcher has made one
\* dispatch task for it on each enabled channel.
C2_AlertsReachDispatcher ==
    /\ notif_created = engine_stats.alerts_triggered
    /\ \A n \in 1..notif_created : \A c \in channel_availability :
           sendlog[<<n, c>>].starts + PendingCount(<<n, c>>) >= 1

\* C5: two events with the same fingerprint that were given to the rules engine arrived
\* at least dedup_window_seconds apart, and only the events given to the rules engine
\* were added to the event history or counted against a rule.
C5_DuplicateDropped ==
    /\ \A i, j \in 1..Len(evaluated) :
          (i < j /\ evaluated[i].fp = evaluated[j].fp)
              => evaluated[j].at - evaluated[i].at >= dedup_window_seconds
    /\ Len(event_history) = Min(Len(evaluated), max_history_size)
    /\ \A i \in 1..Len(rules) :
          rule_stats[rules[i].name].total_events
              = (IF rules[i].enabled THEN Len(evaluated) ELSE 0)
    /\ engine_stats.events_processed >= Len(evaluated)

\* An event was dropped as a duplicate, and an event with the same fingerprint as an
\* earlier one was evaluated once the window had passed.
C5_Witness ==
    /\ engine_stats.events_processed > Len(evaluated)
    /\ \E i, j \in 1..Len(evaluated) : i < j /\ evaluated[i].fp = evaluated[j].fp

(***************************************************************************)
(* Properties of the WebSocket client.                                     *)
(***************************************************************************)
AllSubKeys == {SubKeys[i] : i \in 1..Len(SubKeys)}

\* C6 (as claimed): on every connection, the first and every later one, a frame is
\* forwarded only after a subscribe request for each watched wallet and each of the
\* three channel types has been sent on that connection.
C6_SubscribedBeforeFrames == conn.forwarded => conn.requests = AllSubKeys

\* C7 (as claimed): once shutdown() has set the flag, run() returns; and run() returns
\* only when the client is shutting down, whatever the transport does.
C7_RunReturns ==
    /\ is_shutting_down ~> (ws_pc = "returned")
    /\ [](ws_pc = "returned" => is_shutting_down)

\* The configured watched set.
WatchedSet == {watched_wallets[i] : i \in 1..Len(watched_wallets)}

\* The ids of the elements of a sequence of elements or of events.
Ids(xs) == [k \in 1..Len(xs) |-> xs[k].id]

\* The number of events given to the event handler for the frames of the log.
RECURSIVE EventCount(_)
EventCount(log) == IF log = <<>> THEN 0 ELSE Len(Head(log).events) + EventCount(Tail(log))

\* C11: every event given to the event handler, and every event the rules engine
\* evaluated, carries a non-empty account of the watched set; a frame whose account is
\* missing or not watched gives no event.
C11_OnlyWatchedAccounts ==
    /\ \A i \in 1..Len(framelog) :
          /\ \A k \in 1..Len(framelog[i].events) :
                /\ framelog[i].events[k].wallet \notin {None, ""}
                /\ framelog[i].events[k].wallet \in WatchedSet
          /\ ResolveWallet(framelog[i].frame) \notin WatchedSet
                => framelog[i].events = <<>>
    /\ \A j \in 1..Len(evaluated) : evaluated[j].event.wallet \in WatchedSet

\* A frame of an account that is not watched was dropped, a frame without any account
\* was dropped, and a frame of a watched account gave an event that was evaluated.
C11_Witness ==
    /\ \E i \in 1..Len(framelog) :
          /\ framelog[i].frame.valid
          /\ framelog[i].frame.channel = "userFills"
          /\ ResolveWallet(framelog[i].frame) = "0xbbbbbb02"
          /\ framelog[i].events = <<>>
    /\ \E i \in 1..Len(framelog) : framelog[i].events # <<>>
    /\ evaluated # <<>>

\* C12: the events of a frame are given to the event handler in the order of the
\* elements of its payload, frame after frame in the order of arrival, and when the
\* next frame is taken the handler has processed every event of the frames before.
C12_EventsInArrivalOrder ==
    /\ Len(framelog) = cstats.total_messages
    /\ \A i \in 1..Len(framelog) :
          framelog[i].events # <<>> =>
              Ids(framelog[i].events)
                  = Ids(SelectSeq(framelog[i].frame.items, LAMBDA el : el.isdict))
    /\ engine_stats.events_processed = EventCount(framelog)
    /\ cstats.successful_parses = EventCount(framelog)

\* A list payload gave two events, and a later frame gave an event as well.
C12_Witness ==
    \E i, j \in 1..Len(framelog) :
        /\ i < j
        /\ Len(framelog[i].events) = 2
        /\ framelog[j].frame.kind = "dict"
        /\ Len(framelog[j].events) = 1

\* C20 (as claimed): every frame that failed to parse has been counted as a failed
\* parse, has given no event, and the read loop has gone on.
C20_FailedParseCounted ==
    /\ cstats.failed_parses = Cardinality({i \in 1..Len(framelog) : ~framelog[i].frame.valid})
    /\ \A i \in 1..Len(framelog) : ~framelog[i].frame.valid => framelog[i].events = <<>>

(***************************************************************************)
(* Properties of the rules engine.                                         *)
(***************************************************************************)
Range(xs) == {xs[k] : k \in 1..Len(xs)}

\* The names of the enabled rules, in declaration order.
EnabledNames == LET en == SelectSeq(rules, LAMBDA r : r.enabled)
                IN  [k \in 1..Len(en) |-> en[k].name]

\* The number of alerts triggered by the first n evaluated events.
RECURSIVE TriggeredCount(_)
TriggeredCount(n) == IF n = 0 THEN 0 ELSE Len(evaluated[n].triggered) + TriggeredCount(n - 1)

C14_PositionSizeIff ==
    \A j \in 1..Len(evaluated) : \A i \in 1..Len(rules) :
        (rules[i].condition = "position_size" /\ rules[i].enabled) =>
            (rules[i].name \in Range(evaluated[j].triggered)
                <=> /\ ExtractUsdValue(evaluated[j].event) # Absent
                    /\ ExtractUsdValue(evaluated[j].event) >= rules[i].threshold)

\* A rule fired on a value equal to its threshold, a rule did not fire on a smaller
\* value, and no position-size rule fired on an event without a value.
C14_Witness ==
    /\ \E j \in 1..Len(evaluated) : \E i \in 1..Len(rules) :
          /\ rules[i].condition = "position_size"
          /\ ExtractUsdValue(evaluated[j].event) = rules[i].threshold
          /\ rules[i].name \in Range(evaluated[j].triggered)
    /\ \E j \in 1..Len(evaluated) : \E i \in 1..Len(rules) :
          /\ rules[i].condition = "position_size" /\ rules[i].enabled
          /\ ExtractUsdValue(evaluated[j].event) # Absent
          /\ ExtractUsdValue(evaluated[j].event) < rules[i].threshold
          /\ rules[i].name \notin Range(evaluated[j].triggered)
    /\ \E j \in 1..Len(evaluated) : ExtractUsdValue(evaluated[j].event) = Absent

\* C19: a custom rule whose predicate raises did not fire on any evaluated event, every
\* enabled rule was evaluated all the same, the rule's total_events counts every
\* evaluated event once, and no error came out of the evaluation.
C19_CustomRaiseContained ==
    \A i \in 1..Len(rules) :
        (rules[i].condition = "custom" /\ rules[i].enabled
                /\ rules[i].custom_condition = "raises") =>
            /\ \A j \in 1..Len(evaluated) :
                  /\ rules[i].name \notin Range(evaluated[j].triggered)
                  /\ evaluated[j].order = EnabledNames
            /\ rule_stats[rules[i].name].total_events = Len(evaluated)
            /\ rule_stats[rules[i].name].triggered_count = 0
            /\ engine_stats.errors = 0

\* The predicate of a custom rule raised on two events, and on one of them a rule
\* declared after it fired.
C19_Witness ==
    \E i \in 1..Len(rules) :
        /\ rules[i].condition = "custom" /\ rules[i].custom_condition = "raises"
        /\ Len(evaluated) >= 2
        /\ \E j \in 1..Len(evaluated) : \E k \in (i + 1)..Len(rules) :
              rules[k].name \in Range(evaluated[j].triggered)

\* The evaluated events that are in the ring when the j-th has been added.
InRingAt(j) == {k \in 1..j : k > j - max_history_size}

\* The sum of the USD values of the evaluated events of the set ks.
RECURSIVE VolumeOf(_)
VolumeOf(ks) ==
    IF ks = {} THEN 0
    ELSE LET k == CHOOSE x \in ks : TRUE
             v == ExtractUsdValue(evaluated[k].event)
         IN  (IF v = Absent THEN 0 ELSE v) + VolumeOf(ks \ {k})

\* C15 (as claimed): an enabled frequency rule with threshold T and window W fired on an
\* evaluated event if and only if at least T events of the ring, the event itself
\* counted, are of the same account and were observed within the last W seconds.
C15_FrequencyIff ==
    \A j \in 1..Len(evaluated) : \A i \in 1..Len(rules) :
        (rules[i].condition = "frequency" /\ rules[i].enabled) =>
            (rules[i].name \in Range(evaluated[j].triggered)
                <=> Cardinality({k \in InRingAt(j) :
                        /\ evaluated[k].event.wallet = evaluated[j].event.wallet
                        /\ evaluated[k].at >= evaluated[j].at - rules[i].time_window})
                       >= rules[i].threshold)

\* C16 (as claimed): an enabled volume rule with threshold T and window W fired on an
\* evaluated event if and only if the USD values of the events of the ring observed
\* within the last W seconds, the event itself included, sum to T or more.
C16_VolumeIff ==
    \A j \in 1..Len(evaluated) : \A i \in 1..Len(rules) :
        (rules[i].condition = "volume_threshold" /\ rules[i].enabled) =>
            (rules[i].name \in Range(evaluated[j].triggered)
                <=> VolumeOf({k \in InRingAt(j) :
                        evaluated[k].at >= evaluated[j].at - rules[i].time_window})
                       >= rules[i].threshold)

\* The longest time window of an enabled rule (0 when no enabled rule has a window).
LongestWindow ==
    LET ws == {rules[i].time_window : i \in {k \in 1..Len(rules) : rules[k].enabled}}
                  \ {Absent}
    IN  IF ws = {} THEN 0 ELSE CHOOSE w \in ws : \A v \in ws : v <= w

\* C17 (as claimed): when an event has been evaluated, every event of the history was
\* observed within the longest window of an enabled rule before it.
C17_HistoryWithinWindow ==
    LET n == Len(evaluated)
    IN  n > 0 =>
          \A k \in 1..Len(event_history) :
              evaluated[n - Len(event_history) + k].at >= evaluated[n].at - LongestWindow

\* The events evaluated so far, as they were stored, from the k-th on.
StoredFrom(k) == [i \in 1..(Len(evaluated) - k + 1) |-> evaluated[k + i - 1].event]

\* C18: the history holds at most max_history_size events, and they are the events
\* evaluated last, in the order of their arrival.
C18_RingHoldsLatest ==
    /\ Len(event_history) <= max_history_size
    /\ event_history = StoredFrom(Max(1, Len(evaluated) - max_history_size + 1))

\* More events were evaluated than the history holds, the history is full, and it
\* holds events that differ.
C18_Witness ==
    /\ Len(evaluated) = max_history_size + RingExtra
    /\ Len(event_history) = max_history_size
    /\ event_history[1] = Stamp(RingFillEvent, 0)
    /\ event_history[max_history_size] # event_history[max_history_size - 1]

(***************************************************************************)
(* Properties of the reconnection of the WebSocket client.                 *)
(***************************************************************************)
\* The delay the specification gives for a count of consecutive failures.
SpecifiedDelay(failures) ==
    CASE failures <= 3 -> 2
      [] failures >= 4 /\ failures <= 10 -> 5
      [] OTHER -> IF failures < 30 THEN failures ELSE 30

\* C27: whenever run() waits before the next connection attempt, the delay is 2 s for
\* at most 3 consecutive failures, 5 s for 4 to 10, and min(30, consecutive_failures)
\* seconds beyond.
C27_DelayPiecewise ==
    ws_pc = "backoff" => reconnect_delay = SpecifiedDelay(cstats.consecutive_failures)

\* run() waits 30 s after more than 30 consecutive failures.
C27_Witness ==
    ws_pc = "backoff" /\ cstats.consecutive_failures > 30 /\ reconnect_delay = 30

\* C21 (as claimed): when a connection that delivered one frame has been closed and the
\* next 4 connection attempts have failed, consecutive_failures is 4 after the 4th
\* failure and the delays run() has waited are 2, 2, 2, 2 and 5 seconds.
C21_DropThenFourFailures ==
    (/\ session.frames = 1
     /\ session.closed # "no"
     /\ session.fails = 4
     /\ Len(session.delays) = 5
     /\ ws_pc = "backoff")
    => /\ cstats.consecutive_failures = 4
       /\ session.delays = <<2, 2, 2, 2, 5>>

\* C26 (as claimed): when the read loop of a connection has ended, consecutive_failures
\* is 0 if the connection delivered a frame, and is not reset (it is at least what it
\* was before the connection was made) if it delivered none.
C26_ResetIffFrameDelivered ==
    session.closed # "no" =>
        IF session.frames > 0
        THEN session.close_failures = 0
        ELSE /\ session.close_failures >= session.pre_failures
             /\ session.pre_failures > 0 => session.close_failures # 0

\* C28: connection_monitor has closed the socket exactly when the last two liveness
\* probes of the connection both failed (a probe that succeeds starts the count again),
\* the socket is then closed, and run(), if it is in its read loop, can leave it.
C28_ClosedAfterTwoFailedProbes ==
    /\ session.monitor_closed <=> session.failed_probes = 2
    /\ session.monitor_closed => websocket # "open"
    /\ (session.monitor_closed /\ ws_pc = "reading") => ENABLED ReadEnd

\* The monitor closed the socket during the read loop, after a probe that failed, one
\* that succeeded and two that failed.
C28_Witness ==
    /\ session.monitor_closed
    /\ ws_pc = "reading"
    /\ websocket = "closed_ok"
    /\ cstats.consecutive_failures = 2

(***************************************************************************)
(* Properties of shutdown and of the pending list.                         *)
(***************************************************************************)
\* C25 (as claimed): once shutdown is signalled, run(), the health monitor and the
\* dispatcher's queue and retry workers end (within 10 s, so at some time).
C25_AllTasksExit ==
    is_shutting_down ~> (/\ ws_pc = "returned"
                         /\ health_check_task \in {"none", "done"}
                         /\ ~running
                         /\ rw.pc = "idle")

\* The priority the specification gives to a severity.
SeverityPriority(severity) ==
    CASE severity = "critical" -> 4
      [] severity = "high" -> 3
      [] severity = "medium" -> 2
      [] severity = "low" -> 1
      [] OTHER -> 0

\* C30 (as claimed): the pending alerts of a key are in the order of the priority of
\* their rule's severity, the highest first, whatever the order they were queued in.
C30_PendingBySeverity ==
    \A k \in Keys : \A i, j \in 1..Len(pending_events[k]) :
        i < j => SeverityPriority(pending_events[k][i].event.rule_severity)
                   >= SeverityPriority(pending_events[k][j].event.rule_severity)

(***************************************************************************)
(* Properties of the path of a fill from the frame to the alerts.          *)
(***************************************************************************)
\* C22 (as claimed): when the one frame received is the userFills frame of the watched
\* account with the fill of 25 BTC at 50000, one event is produced, the classifier gives
\* it the size class large, rule large_position fires, and one alert is produced and
\* dispatched to every enabled channel.
C22_FillGivesOneLargeAlert ==
    (Len(framelog) = 1 /\ framelog[1].frame = FillFrame) =>
        /\ Len(framelog[1].events) = 1
        /\ Len(evaluated) = 1
        /\ evaluated[1].size_class = "LARGE"
        /\ "large_position" \in Range(evaluated[1].triggered)
        /\ Len(evaluated[1].notifications) = 1
        /\ notif_created = 1
        /\ \A c \in channel_availability : sendlog[<<1, c>>].starts = 1

(***************************************************************************)
(* Properties of the fingerprint and of the mutations of the rule set.     *)
(***************************************************************************)
\* The seven fields of the fingerprint.
SevenFields(e) == <<e.type, e.wallet, e.coin, e.side, e.usd_value, e.size, e.price>>

\* The number of the seven fields in which two events differ.
DifferingFields(a, b) ==
    Cardinality({i \in 1..7 : SevenFields(a)[i] # SevenFields(b)[i]})

\* C23: two events equal in the seven fields have the same fingerprint, whatever else
\* they differ in, and two events that differ in exactly one of the seven fields have
\* different fingerprints.
C23_FingerprintOfSevenFields ==
    fingerprints.computed =>
        /\ DifferingFields(fingerprints.a, fingerprints.b) = 0
               => fingerprints.fa = fingerprints.fb
        /\ DifferingFields(fingerprints.a, fingerprints.b) = 1
               => fingerprints.fa # fingerprints.fb

\* Two events that differ only in the coin, absent in one of them, with different
\* fingerprints.
C23_Witness ==
    /\ fingerprints.computed
    /\ DifferingFields(fingerprints.a, fingerprints.b) = 1
    /\ fingerprints.a.coin = None
    /\ fingerprints.b.coin = "BUY"
    /\ fingerprints.fa # fingerprints.fb

\* C29 (as claimed): the fingerprint has seven positions, an absent field being an empty
\* one, and two events whose seven fields differ anywhere have different fingerprints.
C29_FingerprintFixedPositions ==
    fingerprints.computed =>
        /\ Len(fingerprints.fa) = 7
        /\ SevenFields(fingerprints.a) # SevenFields(fingerprints.b)
               => fingerprints.fa # fingerprints.fb

\* C24 (as claimed): an event evaluated after disable_rule(n) or remove_rule(n) does not
\* evaluate or trigger a rule named n nor change its statistics, and an event evaluated
\* after enable_rule(n) or add_rule of an enabled rule n evaluates rule n.
C24_MutationsTakeEffect ==
    [][Len(evaluated') > Len(evaluated) =>
          LET en == evaluated'[Len(evaluated')]
          IN  /\ \A n \in expected.off :
                    /\ n \notin Range(en.order)
                    /\ n \notin Range(en.triggered)
                    /\ n \in DOMAIN rule_stats =>
                          n \in DOMAIN rule_stats' /\ rule_stats'[n] = rule_stats[n]
              /\ \A n \in expected.on : n \in Range(en.order)]_vars

\* The dispatch tasks whose channel send was called at least once.
AttemptedTasks == {t \in Tasks : sendlog[t].starts > 0}

\* C38: each dispatch task is counted at most once in notifications_sent +
\* notifications_failed: the two counters together never exceed the number of tasks that
\* were sent at all.
C38_TaskCountedOnce ==
    stats.notifications_sent + stats.notifications_failed <= Cardinality(AttemptedTasks)

\* C35: the retry worker sends a task again only when the rate limiter of the task's
\* channel admits the request, and the retry is counted in the limiter's state of the
\* key like a first attempt.
C35_RetryAsksLimiter ==
    [][(\E t \in Tasks : sendlog'[t].retries > sendlog[t].retries) =>
          LET item == rw'.cur
              key == GetKey(item.channel, item.wallet)
              res == CanSendRequest(channel_stats[key], DEFAULT_RATE_LIMITS[item.channel], now)
          IN  res.ok /\ channel_stats'[key] = res.stats]_vars

\* The keys of the token-bucket channels.
BucketKeys == {k \in Keys : DEFAULT_RATE_LIMITS[k[1]].strategy = "token_bucket"}

\* The tokens a key has at time t, in tenths: a key without statistics has a full bucket.
Available(k, t) ==
    IF channel_stats[k] = NoStats THEN DEFAULT_RATE_LIMITS[k[1]].burst_capacity * TokenScale
    ELSE Min(DEFAULT_RATE_LIMITS[k[1]].burst_capacity * TokenScale,
             channel_stats[k].tokens
                 + (t - channel_stats[k].last_refill) * DEFAULT_RATE_LIMITS[k[1]].refill_rate)

\* C32: for a token-bucket key 0 <= tokens <= burst_capacity in every state; a request
\* is admitted only when a whole token is available, an admission consumes exactly one
\* token and a refused request consumes none.
C32_TokenBucket ==
    /\ [](\A k \in BucketKeys : channel_stats[k] # NoStats =>
             /\ channel_stats[k].tokens >= 0
             /\ channel_stats[k].tokens
                    <= DEFAULT_RATE_LIMITS[k[1]].burst_capacity * TokenScale)
    /\ [][\A k \in BucketKeys :
             /\ channel_stats'[k] # channel_stats[k] =>
                   \/ channel_stats'[k].tokens = Available(k, now)
                   \/ /\ Available(k, now) >= TokenScale
                      /\ channel_stats'[k].tokens = Available(k, now) - TokenScale
             /\ Len(window_sends'[k]) > Len(window_sends[k]) =>
                   /\ Available(k, now) >= TokenScale
                   /\ channel_stats'[k].tokens = Available(k, now) - TokenScale
             /\ Len(pending_events'[k]) > Len(pending_events[k]) =>
                   /\ Available(k, now) < TokenScale
                   /\ channel_stats'[k].tokens = Available(k, now)]_vars

\* The bucket of a key was emptied by five admitted requests, a sixth was refused, and
\* the refill has since added less than a whole token.
C32_Witness ==
    \E k \in BucketKeys :
        /\ channel_stats[k] # NoStats
        /\ Len(window_sends[k]) >= 5
        /\ pending_events[k] # <<>>
        /\ channel_stats[k].tokens > 0
        /\ channel_stats[k].tokens < TokenScale

\* The names of the rules of the rule list.
NamesOf(rl) == {rl[i].name : i \in 1..Len(rl)}

\* C39: after any sequence of add_rule, remove_rule, enable_rule, disable_rule and
\* evaluate_event calls on a RulesEngine, the names that have a statistics record are
\* the names of the rules of its rule list.
C39_StatsForEveryRule == DOMAIN rule_stats = NamesOf(rules)

\* A rule was added and another removed, and an event was then evaluated against the
\* added rule.
C39_Witness ==
    /\ expected.mutations >= 2
    /\ "tiny_position" \in NamesOf(rules)
    /\ "medium_position" \notin NamesOf(rules)
    /\ rule_stats["tiny_position"].total_events > 0

\* evaluate_event(ev) on engine e with an empty history: the names of the triggered
\* rules in order, or the KeyError that _update_rule_stats raises for an enabled rule
\* whose name has no statistics record.
EvaluationOf(inst, e, ev) ==
    LET rl == RulesOf(inst, e)
        hist == <<Stamp(ev, 0)>>
    IN  IF \E i \in 1..Len(rl) :
               rl[i].enabled /\ rl[i].name \notin DOMAIN inst.engines[e].rule_stats
        THEN <<"KeyError">>
        ELSE SelectSeq([i \in 1..Len(rl) |-> IF rl[i].enabled
                                                /\ EvaluateRule(rl[i], ev, hist, 0) = "true"
                                             THEN rl[i].name ELSE None],
                       LAMBDA n : n # None)

\* C40: a rule-set mutation on one RulesEngine leaves the rule list, the enabled flags
\* and the evaluation results of every other RulesEngine instance unchanged, engines
\* created with the default rules included.
C40_MutationsStayLocal ==
    [][\A f \in Engines \ {instances'.mutated} :
          /\ RulesOf(instances', f) = RulesOf(instances, f)
          /\ \A ev \in EventInputs :
                EvaluationOf(instances', f, ev) = EvaluationOf(instances, f, ev)]_vars

\* C36: between two consecutive connect attempts of run() the client waits the
\* reconnect delay, at least 2 s: a connect attempt other than the first begins only at
\* the end of a backoff sleep, also when the subscription phase of the connection failed.
C36_BackoffBetweenConnects ==
    [][(ws_pc' = "connecting" /\ ws_pc \notin {"init", "connecting"})
          => (ws_pc = "backoff" /\ reconnect_delay >= 2)]_vars

\* whale > large > medium > notable.
Ordered(thresholds) ==
    /\ thresholds.whale_threshold > thresholds.large_threshold
    /\ thresholds.large_threshold > thresholds.medium_threshold
    /\ thresholds.medium_threshold > thresholds.notable_threshold

\* C31: when the configured thresholds do not satisfy whale > large > medium > notable,
\* classification returns no size class.
C31_MisorderedThresholdsFail ==
    (classified.computed /\ ~Ordered(classified.thresholds))
        => classified.size_class = None

\* C34: for every event the classifier and the rules engine derive the same USD value,
\* both absent or both equal.
C34_SameUsdValue ==
    classified.computed => classified.classifier_usd = classified.rules_usd

\* C37: when start() has failed after the notification dispatcher was started, the
\* dispatcher's background workers are stopped before start() raises again: no worker
\* is left running.
C37_FailedStartStopsWorkers ==
    tracker.pc = "raised" => (~running /\ rw.pc = "idle")

\* The time in which a running worker uses up the retries of an item: its sleep, the
\* delay of the first retry and the delays between the retries.
RetryHorizon ==
    RetrySleep + retry_delay_base + RequiredDelay(2) + RequiredDelay(3)

\* The task has left the retry list for good: delivered by a retry or failed terminally.
Settled(t) ==
    /\ QueueCount(t) = 0
    /\ InFlightRetry(t) = 0
    /\ sendlog[t].oks > 0 \/ sendlog[t].terminal

\* C33: while the retry worker is running, every task on the retry list eventually
\* leaves it, delivered by a retry or terminally failed after its last allowed retry
\* (for every task that is on the list while the time the model follows suffices).
C33_RetryListDrains ==
    \A t \in Tasks :
        (running /\ QueueCount(t) > 0 /\ now + RetryHorizon <= MaxRetryTime) ~> Settled(t)

\* A task left the retry list by failing its last allowed retry, and another by a retry
\* that delivered it.
C33_Witness ==
    /\ running
    /\ \E t \in Tasks : Settled(t) /\ sendlog[t].terminal /\ sendlog[t].retries = max_retries
    /\ \E t \in Tasks : Settled(t) /\ sendlog[t].oks > 0 /\ sendlog[t].retries > 0

====
